---- MODULE Spec2Model ----
(***************************************************************************)
(* A model of aws-lambda-upload (lib/main.ts): the packaging pipeline      *)
(* _makeTmpZipFile, its sinks packageZipLocal and packageZipS3, and the    *)
(* template transformer cloudformationPackage.                             *)
(*                                                                         *)
(* Strings are sequences of tokens: "lib/bar.js" is <<"lib","/","bar",     *)
(* ".js">>.  The separator "/" is always a token of its own, and an        *)
(* extension (".js", ".ts") is a token of its own, so that the path        *)
(* functions of node (dirname, parse, join, relative) are computed on the  *)
(* string and not assumed.                                                 *)
(*                                                                         *)
(* One action is one turn of the node event loop: the completion of an     *)
(* awaited operation together with the synchronous code that follows it    *)
(* up to the next await.                                                   *)
(***************************************************************************)
EXTENDS Integers, Sequences, FiniteSets, TLC

(***************************************************************************)
(* Strings and node's path module (posix).                                 *)
(***************************************************************************)

Slash == "/"

\* The tokens that are file extensions (path.extname).
ExtTokens == {".js", ".ts", ".zip", ".json", ".yml"}

\* The working directory of the process, "/w".
Cwd == <<"/", "w">>

\* F(a), F(a, b), F(a, b, c) with each argument evaluated once, before F:
\* the call by value of the source language.
Eval1(F(_), a) == CHOOSE r \in {F(x) : x \in {a}} : TRUE

Eval2(F(_, _), a, b) == CHOOSE r \in {F(x, y) : x \in {a}, y \in {b}} : TRUE

Eval3(F(_, _, _), a, b, c) == CHOOSE r \in {F(x, y, z) : x \in {a}, y \in {b}, z \in {c}} : TRUE

Last(s) == s[Len(s)]

Front(s) == SubSeq(s, 1, Len(s) - 1)

\* String.prototype.endsWith for a one-token suffix.
endsWith(s, tok) == Len(s) > 0 /\ Last(s) = tok

\* String.prototype.startsWith.
startsWith(s, pre) == Len(pre) <= Len(s) /\ SubSeq(s, 1, Len(pre)) = pre

\* The index of the last "/" of s at or before position i, 0 when there is none.
RECURSIVE LastSlashUpTo(_, _)
LastSlashUpTo(s, i) ==
    LET at(v, j) ==
          IF j = 0 THEN 0
          ELSE IF v[j] = Slash THEN j
          ELSE LastSlashUpTo(v, j - 1)
    IN Eval2(at, s, i)

\* s.split("/"): the segments between separators (empty segments kept).
RECURSIVE splitSlash(_)
splitSlash(s) ==
    LET at(v, k) ==
          IF k = 0 THEN <<v>>
          ELSE Append(splitSlash(SubSeq(v, 1, k - 1)), SubSeq(v, k + 1, Len(v)))
        of(v) == Eval2(at, v, LastSlashUpTo(v, Len(v)))
    IN Eval1(of, s)

\* segs.join("/")
RECURSIVE joinSlash(_)
joinSlash(segs) ==
    LET of(v) ==
          IF Len(v) = 0 THEN <<>>
          ELSE IF Len(v) = 1 THEN v[1]
          ELSE joinSlash(Front(v)) \o <<Slash>> \o Last(v)
    IN Eval1(of, segs)

isAbsolute(p) == Len(p) > 0 /\ p[1] = Slash

\* normalizeString of node's path: drops "" and "." segments and resolves
\* "..", which is kept at the front of a relative path.
RECURSIVE normalizeSegs(_, _, _)
normalizeSegs(segs, acc, allowAbove) ==
    LET of(v, res, above) ==
          IF Len(v) = 0 THEN res
          ELSE
            LET s == Head(v)
                rest == Tail(v)
            IN
            IF s = <<>> \/ s = <<".">> THEN normalizeSegs(rest, res, above)
            ELSE IF s = <<"..">> THEN
              IF Len(res) > 0 /\ Last(res) # <<"..">> THEN normalizeSegs(rest, Front(res), above)
              ELSE IF above THEN normalizeSegs(rest, Append(res, s), above)
              ELSE normalizeSegs(rest, res, above)
            ELSE normalizeSegs(rest, Append(res, s), above)
    IN Eval3(of, segs, acc, allowAbove)

\* path.normalize
normalize(p) ==
    LET of(v) ==
          IF Len(v) = 0 THEN <<".">>
          ELSE
            LET abs == isAbsolute(v)
                trailing == Last(v) = Slash
                put(body) ==
                  IF Len(body) = 0
                  THEN (IF abs THEN <<Slash>> ELSE IF trailing THEN <<".", Slash>> ELSE <<".">>)
                  ELSE (IF abs THEN <<Slash>> ELSE <<>>) \o body \o (IF trailing THEN <<Slash>> ELSE <<>>)
            IN Eval1(put, joinSlash(normalizeSegs(splitSlash(v), <<>>, ~abs)))
    IN Eval1(of, p)

\* path.join(a, b): empty arguments are skipped, the rest joined and normalized.
pathJoin(a, b) ==
    IF Len(a) = 0 /\ Len(b) = 0 THEN <<".">>
    ELSE IF Len(a) = 0 THEN normalize(b)
    ELSE IF Len(b) = 0 THEN normalize(a)
    ELSE normalize(a \o <<Slash>> \o b)

\* path.dirname: the text before the last separator that is not trailing.
RECURSIVE dirnameEnd(_, _, _)
dirnameEnd(p, i, matchedSlash) ==
    LET at(v, j, m) ==
          IF j < 2 THEN 0
          ELSE IF v[j] = Slash THEN
            (IF ~m THEN j ELSE dirnameEnd(v, j - 1, m))
          ELSE dirnameEnd(v, j - 1, FALSE)
    IN Eval3(at, p, i, matchedSlash)

pathDirname(p) ==
    LET at(v, end) ==
          IF Len(v) = 0 THEN <<".">>
          ELSE IF end = 0 THEN (IF isAbsolute(v) THEN <<Slash>> ELSE <<".">>)
          ELSE IF isAbsolute(v) /\ end = 2 THEN <<Slash, Slash>>
          ELSE SubSeq(v, 1, end - 1)
    IN Eval2(at, p, dirnameEnd(p, Len(p), TRUE))

\* s without its trailing separators.
RECURSIVE stripTrailingSlashes(_)
stripTrailingSlashes(s) ==
    LET of(v) == IF Len(v) > 0 /\ Last(v) = Slash THEN stripTrailingSlashes(Front(v)) ELSE v
    IN Eval1(of, s)

\* path.parse: the fields dir, base, name and ext of a path.
pathParse(p) ==
    LET at(q, k) ==
          LET base == SubSeq(q, k + 1, Len(q))
              hasExt == Len(base) > 1 /\ Last(base) \in ExtTokens
              dir == IF k = 0 THEN <<>>
                     ELSE IF k = 1 THEN <<Slash>>
                     ELSE SubSeq(q, 1, k - 1)
          IN
          [dir |-> dir,
           base |-> base,
           name |-> IF hasExt THEN Front(base) ELSE base,
           ext |-> IF hasExt THEN <<Last(base)>> ELSE <<>>]
        of(q) == Eval2(at, q, LastSlashUpTo(q, Len(q)))
        strip(v, w) == Eval1(of, IF Len(w) = 0 THEN v ELSE w)
    IN Eval2(strip, p, stripTrailingSlashes(p))

\* path.resolve(p) against the working directory, as a list of segments.
resolveSegs(p) ==
    LET of(v) ==
          IF isAbsolute(v) THEN normalizeSegs(splitSlash(v), <<>>, FALSE)
          ELSE normalizeSegs(splitSlash(Cwd \o <<Slash>> \o v), <<>>, FALSE)
    IN Eval1(of, p)

\* path.resolve(a, b): b resolved against a, itself resolved against Cwd.
pathResolve(a, b) ==
    LET of(v, w) ==
          IF isAbsolute(w) THEN <<Slash>> \o joinSlash(resolveSegs(w))
          ELSE <<Slash>> \o joinSlash(resolveSegs(v \o <<Slash>> \o w))
    IN Eval2(of, a, b)

\* The length of the longest common prefix of two lists of segments.
RECURSIVE commonLen(_, _)
commonLen(a, b) ==
    LET of(v, w) ==
          IF Len(v) = 0 \/ Len(w) = 0 \/ Head(v) # Head(w) THEN 0
          ELSE 1 + commonLen(Tail(v), Tail(w))
    IN Eval2(of, a, b)

\* path.relative(from, to)
pathRelative(from, to) ==
    LET at(f, t, c) ==
          LET ups == [i \in 1..(Len(f) - c) |-> <<"..">>] IN
          joinSlash(ups \o SubSeq(t, c + 1, Len(t)))
        of(f, t) == Eval3(at, f, t, commonLen(f, t))
    IN Eval2(of, resolveSegs(from), resolveSegs(to))


(***************************************************************************)
(* String order.  Array.prototype.sort() orders names by code unit; on     *)
(* token strings that is the lexicographic order of the tokens' ranks.     *)
(***************************************************************************)

\* Every token a name is made of, in code-unit order.
TokenOrder == <<".", "..", ".js", ".ts", ".zip", "/", "a", "bar", "dep", "foo", "lib", "w">>

RECURSIVE rankFrom(_, _)
rankFrom(tok, i) ==
    IF i > Len(TokenOrder) THEN i
    ELSE IF TokenOrder[i] = tok THEN i
    ELSE rankFrom(tok, i + 1)

tokenRank(tok) == rankFrom(tok, 1)

\* a < b in code-unit order.
RECURSIVE strLess(_, _)
strLess(a, b) ==
    LET of(v, w) ==
          IF Len(w) = 0 THEN FALSE
          ELSE IF Len(v) = 0 THEN TRUE
          ELSE IF Head(v) = Head(w) THEN strLess(Tail(v), Tail(w))
          ELSE tokenRank(Head(v)) < tokenRank(Head(w))
    IN Eval2(of, a, b)

RECURSIVE setToSeq(_)
setToSeq(S) ==
    LET of(T) ==
          IF T = {} THEN <<>>
          ELSE LET x == CHOOSE y \in T : TRUE IN <<x>> \o setToSeq(T \ {x})
    IN Eval1(of, S)

\* entries.sort()
sortNames(S) == SortSeq(setToSeq(S), strLess)

reverse(s) ==
    LET of(v) == [i \in 1..Len(v) |-> v[Len(v) + 1 - i]] IN Eval1(of, s)

(***************************************************************************)
(* Directory trees.  A tree maps a path relative to its top directory (the *)
(* top itself is <<>>) to [kind, content, mtime].                          *)
(***************************************************************************)

Root == <<>>

\* The constant timestamp of the normalization (main.ts:125).
EpochTime == 0

\* The number of distinct clock readings a file can be created with (1..MaxTime).
MaxTime == 2

Times == 1..MaxTime

\* The directory holding p.
parentOf(p) ==
    LET at(v, k) == IF k = 0 THEN Root ELSE SubSeq(v, 1, k - 1)
    IN Eval2(at, p, LastSlashUpTo(p, Len(p)))

\* The last segment of p.
nameOf(p) == SubSeq(p, LastSlashUpTo(p, Len(p)) + 1, Len(p))

\* The directories above p, the top included.
RECURSIVE ancestors(_)
ancestors(p) ==
    LET up(d) == {d} \cup ancestors(d)
        of(v) == IF v = Root THEN {} ELSE Eval1(up, parentOf(v))
    IN Eval1(of, p)

dirEntry(t) == [kind |-> "dir", content |-> <<>>, mtime |-> t]

fileEntry(c, t) == [kind |-> "file", content |-> c, mtime |-> t]

\* A new empty directory, created at time t (tmp.dir).
emptyTree(t) == (Root :> dirEntry(t))

\* fse.readdir: the names in directory d.
readdir(tree, d) == {nameOf(p) : p \in {q \in DOMAIN tree : q # Root /\ parentOf(q) = d}}

\* path.join(fpath, e) inside a tree.
childPath(d, e) == IF d = Root THEN e ELSE d \o <<Slash>> \o e

\* Writing a file at time t: the file gets content c and mtime t, missing
\* directories above it are created, and a directory that gains an entry
\* gets mtime t.  Overwriting an existing file leaves its directory alone.
treeWrite(tree, p, c, t) ==
    LET into(old, f) ==
          LET isNew == f \notin DOMAIN old
              put(newDirs) ==
                LET touch(touched) ==
                      [q \in DOMAIN old \cup newDirs \cup {f} |->
                          IF q = f THEN fileEntry(c, t)
                          ELSE IF q \in newDirs THEN dirEntry(t)
                          ELSE IF q \in touched THEN dirEntry(t)
                          ELSE old[q]]
                IN Eval1(touch, {d \in ancestors(f) : d \in DOMAIN old /\ isNew /\
                                   (d = parentOf(f) \/ \E n \in newDirs : parentOf(n) = d)})
          IN Eval1(put, {d \in ancestors(f) : d \notin DOMAIN old})
    IN Eval2(into, tree, p)

\* Writing a whole set of files (a function path -> content) at time t.
RECURSIVE treeWriteAll(_, _, _)
treeWriteAll(tree, files, t) ==
    LET of(old, fs) ==
          IF DOMAIN fs = {} THEN old
          ELSE
            LET p == CHOOSE q \in DOMAIN fs : TRUE
                rest == [q \in DOMAIN fs \ {p} |-> fs[q]]
            IN
            treeWriteAll(treeWrite(old, p, fs[p], t), rest, t)
    IN Eval2(of, tree, files)

\* fse.utimes(fpath, atime, mtime)
utimes(tree, p, t) == [tree EXCEPT ![p].mtime = t]

\* The files of a tree with their contents (no directories, no timestamps).
filesOf(tree) ==
    LET F == {p \in DOMAIN tree : tree[p].kind = "file"} IN
    [p \in F |-> tree[p].content]

(***************************************************************************)
(* fsWalk (main.ts:69-82): the sequence of paths passed to cb.             *)
(***************************************************************************)

RECURSIVE fsWalkLoop(_, _, _)
fsWalkLoop(tree, todo, visited) ==
    LET of(tr, td, vs) ==
          IF Len(td) = 0 THEN vs
          ELSE
            LET fpath == Last(td)
                rest == Front(td)
                push(entries) ==
                  fsWalkLoop(tr, rest \o [i \in 1..Len(entries) |-> childPath(fpath, entries[i])],
                             Append(vs, fpath))
            IN
            IF tr[fpath].kind = "dir"
            THEN Eval1(push, reverse(sortNames(readdir(tr, fpath))))
            ELSE fsWalkLoop(tr, rest, Append(vs, fpath))
    IN Eval3(of, tree, todo, visited)

\* A walk that visits what is beneath the top directory and not the top.
fsWalk_belowTop(tree, topDir) == Tail(fsWalkLoop(tree, <<topDir>>, <<>>))

fsWalk(tree, topDir) == fsWalkLoop(tree, <<topDir>>, <<>>)

\* The tree after cb = utimes(fpath, atime, 0) ran on the first n visited paths.
RECURSIVE utimesFirst(_, _, _)
utimesFirst(tree, order, n) ==
    LET of(tr, ord, k) ==
          IF k = 0 THEN tr
          ELSE utimes(utimesFirst(tr, ord, k - 1), ord[k], EpochTime)
    IN Eval3(of, tree, order, n)

\* A normalization that resets the files and leaves the directories alone.
normalizeTimes_filesOnly(tree) ==
    [q \in DOMAIN tree |->
        IF tree[q].kind = "file" THEN [tree[q] EXCEPT !.mtime = EpochTime] ELSE tree[q]]

\* main.ts:125: the tree after the whole walk.
normalizeTimes(tree) ==
    LET walked(tr, order) == utimesFirst(tr, order, Len(order))
    IN Eval2(walked, tree, fsWalk(tree, Root))

(***************************************************************************)
(* zip -q -r -X zipPath . run in the staging directory: the archive holds  *)
(* every entry below the top with its relative path, kind, contents and    *)
(* modification time (-X leaves out the other file attributes).  The bytes *)
(* are a function of exactly these.                                        *)
(***************************************************************************)

zipBytes(tree) ==
    {[path |-> p, kind |-> tree[p].kind, content |-> tree[p].content, mtime |-> tree[p].mtime] :
        p \in DOMAIN tree \ {Root}}

\* createHash("md5").update(zipData).digest().toString("hex"): one token that
\* stands for the digest of these bytes; distinct bytes have distinct digests.
md5Hex(bytes) == <<ToString(bytes)>>

(***************************************************************************)
(* The inputs: entry files and what the Dependency Collector stages for    *)
(* them.                                                                   *)
(***************************************************************************)

fooJs == <<"foo", ".js">>

libBarJs == <<"lib", Slash, "bar", ".js">>

libFooTs == <<"lib", Slash, "foo", ".ts">>

libFooJs == <<"lib", Slash, "foo", ".js">>

depWJs == <<"dep", Slash, "w", ".js">>

dotFooJs == <<".", Slash, "foo", ".js">>

absFooJs == Cwd \o <<Slash, "foo", ".js">>

absLibBarJs == Cwd \o <<Slash>> \o libBarJs

fooAbsJs == <<"foo_abs", ".js">>

\* The entry files of a session of several calls.
EntryPaths == {fooJs, libBarJs}

\* The entry files of the single-call runs: at top level under three
\* spellings, and nested.
OneCallPaths == {fooJs, dotFooJs, absFooJs, libBarJs, libFooTs}

\* The entry files of the packageZipS3 sessions.
S3Paths == {libBarJs}

\* The entry files a template leads to: path.resolve gives absolute paths.
CfnPaths == {absFooJs, absLibBarJs}

\* The entry file of the sessions that pass options to the collector: it
\* imports lib/bar by a path that is not relative (test_main.js:379-412).
OptionPaths == {fooAbsJs}

AllPaths == EntryPaths \cup OneCallPaths \cup S3Paths \cup CfnPaths \cup OptionPaths

\* A value that may be undefined: an optional property of the options, or
\* an environment variable.
undefined == [def |-> FALSE, v |-> <<>>]

defined(s) == [def |-> TRUE, v |-> s]

\* String(x), as an assignment to a property of process.env converts x.
String(x) == IF x.def THEN x ELSE defined(<<"undefined">>)

src(tag) == <<"src:", tag>>

\* collectJsDeps(["--outdir", stageDir, ...args, startPath]) is an external
\* program: what it stages for an entry is one of these sets of files (path
\* relative to the staging directory -> contents).  The imports of an entry
\* decide which; lib/foo.ts may import ../foo.js, which is then staged at the
\* top level beside the compiled lib/foo.js.
collectOutputs(startPath) ==
    IF startPath \in {fooJs, dotFooJs, absFooJs} THEN
        {(fooJs :> src("foo")),
         (fooJs :> src("foo")) @@ (libBarJs :> src("bar"))}
    ELSE IF startPath \in {libBarJs, absLibBarJs} THEN
        {(libBarJs :> src("bar")),
         (libBarJs :> src("bar")) @@ (depWJs :> src("w"))}
    ELSE
        {(libFooJs :> src("foo.ts")),
         (libFooJs :> src("foo.ts")) @@ (fooJs :> src("foo"))}

\* The arguments and the NODE_PATH the collector runs with decide how an
\* import that is not relative is resolved (test_main.js:379-412): with
\* NODE_PATH "." lib/bar is found and staged, with --im a missing import is
\* ignored, and with neither the collector fails (no output is possible).
collectJsDeps(startPath, args, nodePath) ==
    IF startPath \in OptionPaths THEN
        IF nodePath = defined(<<".">>)
        THEN {(fooAbsJs :> src("foo_abs")) @@ (libBarJs :> src("bar"))}
        ELSE IF \E k \in DOMAIN args : args[k] = "--im"
        THEN {(fooAbsJs :> src("foo_abs"))}
        ELSE {}
    ELSE collectOutputs(startPath)

(***************************************************************************)
(* The stub (main.ts:112-121).                                             *)
(***************************************************************************)

\* main.ts:112
needsStub(startPath) == pathDirname(startPath) # <<".">>

\* main.ts:118, relative to stageDir: start.name + ".js"
stubName(startPath) == pathParse(startPath).name \o <<".js">>

\* main.ts:119
requirePath(startPath) ==
    LET start == pathParse(startPath) IN
    pathRelative(<<>>, pathJoin(start.dir, start.name))

\* main.ts:120
stubContent(startPath) ==
    <<"module.exports = require(\"", ".", Slash>> \o requirePath(startPath) \o <<"\");\n">>

(***************************************************************************)
(* State.                                                                  *)
(***************************************************************************)

\* The number of top-level calls one run of the model makes.
MaxCalls == 2

\* Each build takes at most two temporary names (tmp.dir, tmp.file).
TmpIds == 1..(2 * MaxCalls)

Procs == {"p1"}

\* options.cache: 0 is "no cache given", 1 is the caller's Map.
NoCache == 0

CacheIds == {1}

\* The Maps that the runs of cloudformationPackage create (main.ts:288): the
\* n-th run creates newMap(n).  Every Map is a different object.
newMap(n) == 1 + n

RunCaches == {newMap(n) : n \in 1..MaxCalls}

AllCaches == CacheIds \cup RunCaches

outZip == <<"out", ".zip">>

NoFile == [st |-> "none", bytes |-> {}]

\* A file that was at outputZipPath before the run: some older archive.
oldFile == [st |-> "file", bytes |-> zipBytes(treeWrite(emptyTree(1), <<"old", ".js">>, <<"src:", "old">>, 1))]

\* What a copy that failed half way leaves behind.
partialFile == [st |-> "partial", bytes |-> {}]

\* A remote location that was not computed.
NoLoc == [bucket |-> <<>>, key |-> <<>>]

\* main.ts:16
defaultBucket == <<"aws-lambda-upload">>

bucketB == <<"b">>

BucketNames == {defaultBucket, bucketB}

VARIABLES
    pr,        \* per call in flight: position and locals
    calls,     \* number of top-level calls started
    tmpCount,  \* number of temporary names handed out by tmp
    dirs,      \* staging directories: id -> [st, tree]
    zips,      \* temporary zip files: id -> [st, bytes]
    outFile,   \* the file at outputZipPath: [st, bytes]
    cache,     \* the caches: cache id -> (entry path -> zip id, 0 when absent)
    reqs,      \* history: cache id -> entry path -> number of requests so far
    builds,    \* history: the builds that completed
    s3,        \* the remote store: bucket name -> [st, objects]
    s3log,     \* history: the packageZipS3 calls that completed, in order
    cfn,       \* the cloudformationPackage call: position and locals
    opts,      \* the S3 options the caller passes to every call of the session
    fn,        \* the function at AWS Lambda: [code, updates]
    cli,       \* the command line invocation: position, flags, exit code
    walk,      \* a call of fsWalk on its own: position, tree, todo, callbacks
    env,       \* process.env.NODE_PATH
    collectOpts \* the options objects of the callers: id -> [browserifyArgs, tsconfig, nodePath]

\* The options objects a caller may pass.
OptIds == {"o1", "o2"}

\* An options object without browserifyArgs, tsconfig and nodePath.
NoCollectOpts == [browserifyArgs |-> undefined, tsconfig |-> undefined, nodePath |-> undefined]

vars == <<pr, calls, tmpCount, dirs, zips, outFile, cache, reqs, builds, s3, s3log, cfn, opts, fn, cli, walk,
          env, collectOpts>>

Idle ==
    [pc |-> "idle", sink |-> "none", startPath |-> <<>>, cacheId |-> NoCache,
     stageDir |-> 0, zipPath |-> 0, tmpPath |-> 0,
     result |-> "none", err |-> "", ret |-> <<>>,
     hadKey |-> FALSE, reqIdx |-> 0, nCollect |-> 0, nStage |-> 0, nZip |-> 0,
     collected |-> <<>>, out0 |-> NoFile, thrown |-> "",
     cache0 |-> [c \in AllCaches |-> [e \in AllPaths |-> 0]],
     bucket |-> <<>>, prefix |-> <<>>, zipData |-> {}, hasData |-> FALSE,
     exists |-> FALSE, upload |-> "no", loc |-> NoLoc,
     head |-> "", nCreate |-> 0, msg |-> <<>>,
     child |-> "none", code |-> -1, promise |-> [st |-> "none", msg |-> <<>>],
     optId |-> "o1", args |-> <<>>, sharedArgs |-> FALSE, prevNodePath |-> undefined,
     collectArgs |-> <<>>, seenNodePath |-> undefined,
     env0 |-> undefined, opts0 |-> NoCollectOpts, joined |-> FALSE, rest0 |-> undefined]

NoDir == [st |-> "none", tree |-> <<>>]

emptyCache == [e \in AllPaths |-> 0]

\* No S3 options: options = {}.
NoOpts == [s3Bucket |-> <<>>, s3Prefix |-> <<>>, cache |-> NoCache]

\* cloudformationPackage was not called.
CfnIdle ==
    [pc |-> "idle", templatePath |-> <<>>, input |-> <<>>, template |-> <<>>, i |-> 0,
     cacheId |-> NoCache, locs |-> <<>>, result |-> "none", err |-> "", caller |-> "",
     syntax |-> "yaml", parsers |-> <<>>, msg |-> <<>>]

\* The function at AWS Lambda before any update by this process.
NoFn == [code |-> NoFile, updates |-> 0]

\* The process was not started from the command line.
CliIdle ==
    [pc |-> "idle", stage |-> "", flags |-> {}, nargs |-> 0,
     exit |-> -1, reported |-> "", written |-> FALSE,
     outputPath |-> <<>>, stdout |-> <<>>, file |-> <<>>]

\* fsWalk was not called.
WalkIdle ==
    [pc |-> "idle", input |-> emptyTree(EpochTime), tree |-> emptyTree(EpochTime),
     todo |-> <<>>, paths |-> <<>>, cur |-> Root, visited |-> <<>>,
     running |-> FALSE, ended |-> 0]

\* The process has started and its callers `ps` have called nothing yet.
ProcessWith(ps) ==
    /\ walk = WalkIdle
    /\ fn = NoFn
    /\ cli = CliIdle
    /\ s3log = <<>>
    /\ cfn = CfnIdle
    /\ pr = [p \in ps |-> Idle]
    /\ calls = 0
    /\ tmpCount = 0
    /\ dirs = [d \in TmpIds |-> NoDir]
    /\ zips = [z \in TmpIds |-> NoFile]
    /\ cache = [c \in AllCaches |-> emptyCache]
    /\ reqs = [c \in AllCaches |-> [e \in AllPaths |-> 0]]
    /\ builds = {}

\* The process has started without NODE_PATH and its callers `ps` pass
\* none of the collector's options.
StartedWith(ps) ==
    /\ ProcessWith(ps)
    /\ env = undefined
    /\ collectOpts = [o \in OptIds |-> NoCollectOpts]

Started == StartedWith(Procs)

\* The start of a session that packages to local files: a file may be at
\* outputZipPath already.
Init ==
    /\ Started
    /\ outFile \in {NoFile, oldFile}
    /\ s3 = [b \in BucketNames |-> [st |-> "missing", objects |-> {}]]
    /\ opts = NoOpts

\* Map.has / Map.get on options.cache
cacheHas(c, startPath) == c # NoCache /\ cache[c][startPath] # 0

(***************************************************************************)
(* _makeTmpZipFile (main.ts:88-145).                                       *)
(***************************************************************************)

\* What the caller of _makeTmpZipFile does with the returned path.
afterMake(rec, tmpPath) ==
    [rec EXCEPT !.tmpPath = tmpPath, !.pc = IF rec.sink = "local" THEN "copy" ELSE "readfile"]

\* A caller that catches a failure of zip and carries on with the path.
afterMakeThrow_carryOn(rec, e) ==
    IF rec.zipPath # 0
    THEN [rec EXCEPT !.tmpPath = rec.zipPath, !.pc = "copy"]
    ELSE [rec EXCEPT !.pc = "done", !.result = "rejected", !.err = e]

\* What the caller of _makeTmpZipFile does with a thrown error: it has no
\* try/catch, so its own promise is rejected with the same error.
afterMakeThrow(rec, e) ==
    [rec EXCEPT !.pc = "done", !.result = "rejected", !.err = e]

\* The request as the history sees it: whether the cache had the entry path,
\* and the how-manieth request for it with this cache this is.
request(rec) ==
    [rec EXCEPT !.hadKey = cacheHas(rec.cacheId, rec.startPath),
                !.reqIdx = IF rec.cacheId = NoCache THEN 0 ELSE reqs[rec.cacheId][rec.startPath] + 1]

countReq(c, startPath) ==
    IF c = NoCache THEN reqs ELSE [reqs EXCEPT ![c][startPath] = @ + 1]

\* main.ts:97
tsifyGroup(tsconfig) == <<"-p", "[", "tsify", "-p">> \o tsconfig \o <<"]">>

\* main.ts:95-98: args is the caller's array when there is one, else a new
\* array; the plugin group is pushed onto it.
argsOf(o) ==
    (IF o.browserifyArgs.def THEN o.browserifyArgs.v ELSE <<>>)
      \o (IF o.tsconfig.def THEN tsifyGroup(o.tsconfig.v) ELSE <<>>)

\* main.ts:95-102: the locals of a run that missed the cache, as it waits
\* for its staging directory.
missed(rec) ==
    [request(rec) EXCEPT !.pc = "tmpdir",
                         !.args = argsOf(collectOpts[rec.optId]),
                         !.sharedArgs = collectOpts[rec.optId].browserifyArgs.def,
                         !.prevNodePath = env]

\* main.ts:95-98: what the push leaves in the caller's options.
pushed(optId) ==
    IF collectOpts[optId].browserifyArgs.def
    THEN [collectOpts EXCEPT ![optId].browserifyArgs = defined(argsOf(collectOpts[optId]))]
    ELSE collectOpts

\* A pipeline that never looks into the cache.
makeTmpZipFile_noLookup(p, rec) ==
    /\ pr' = [pr EXCEPT ![p] = missed(rec)]
    /\ collectOpts' = pushed(rec.optId)
    /\ reqs' = countReq(rec.cacheId, rec.startPath)

\* main.ts:89-102: the cache lookup, and on a miss the request for a staging
\* directory.
makeTmpZipFile(p, rec) ==
    /\ IF cacheHas(rec.cacheId, rec.startPath)
       THEN /\ pr' = [pr EXCEPT ![p] = afterMake(request(rec), cache[rec.cacheId][rec.startPath])]
            /\ collectOpts' = collectOpts
       ELSE /\ pr' = [pr EXCEPT ![p] = missed(rec)]
            /\ collectOpts' = pushed(rec.optId)
    /\ reqs' = countReq(rec.cacheId, rec.startPath)

\* main.ts:141-144: the finally block starts the removal of the staging
\* directory and does not wait for it.  What a directory under removal still
\* holds is not tracked.
finallyDirs(d) == [dirs EXCEPT ![d] = [st |-> "removing", tree |-> <<>>]]

\* main.ts:142: process.env.NODE_PATH = prevNodePath
finallyEnv(rec) == String(rec.prevNodePath)

\* main.ts:109: [...args] is read when the collector is called.
spreadArgs(rec) ==
    IF rec.sharedArgs THEN collectOpts[rec.optId].browserifyArgs.v ELSE rec.args

\* A tmp.dir that hands out the directory it handed out before.
tmpDir_reused(count) == 1

\* main.ts:101-102: tmp.dir makes a directory under a name that was not in
\* use; `count` names were handed out before.
tmpDir(count) == count + 1

\* tmp.dir calls back (main.ts:101-109): the staging directory exists and the
\* collector is started.
TmpDirDone(p) ==
    /\ pr[p].pc = "tmpdir"
    /\ tmpCount < 2 * MaxCalls
    /\ \E t \in Times :
         /\ dirs' = [dirs EXCEPT ![tmpDir(tmpCount)] = [st |-> "present", tree |-> emptyTree(t)]]
    /\ tmpCount' = tmpCount + 1
    /\ env' = IF collectOpts[pr[p].optId].nodePath.def THEN collectOpts[pr[p].optId].nodePath ELSE env
    /\ pr' = [pr EXCEPT ![p].stageDir = tmpDir(tmpCount), ![p].nStage = @ + 1,
                        ![p].nCollect = @ + 1, ![p].pc = "collect",
                        ![p].collectArgs = spreadArgs(pr[p]),
                        ![p].seenNodePath = env']
    /\ UNCHANGED <<calls, zips, outFile, cache, reqs, collectOpts, builds, s3, s3log, cfn, opts, fn, cli, walk>>

\* main.ts:123-125 is started: the state in which fsWalk runs.
startWalk(rec) == [rec EXCEPT !.pc = "walk"]

\* collectJsDeps resolves (main.ts:109-121): the files are staged; the stub
\* is written when the entry is not at top level, else fsWalk starts.  The
\* collector resolves imports with the NODE_PATH it was started under.
CollectDone(p) ==
    /\ pr[p].pc = "collect"
    /\ \E files \in collectJsDeps(pr[p].startPath, pr[p].collectArgs, pr[p].seenNodePath),
          t \in Times :
         /\ dirs' = [dirs EXCEPT ![pr[p].stageDir].tree = treeWriteAll(@, files, t)]
         /\ pr' = [pr EXCEPT ![p] =
                     IF needsStub(pr[p].startPath)
                     THEN [pr[p] EXCEPT !.collected = files, !.pc = "stub"]
                     ELSE startWalk([pr[p] EXCEPT !.collected = files])]
    /\ UNCHANGED <<calls, tmpCount, zips, outFile, cache, reqs, collectOpts, builds, s3, s3log, cfn, opts, fn, cli, walk, env>>

\* A failure path that leaves the try block without a finally.
stepFails_noFinally(p, at, e) ==
    /\ pr[p].pc = at
    /\ pr' = [pr EXCEPT ![p] = afterMakeThrow([pr[p] EXCEPT !.thrown = e], e)]
    /\ UNCHANGED <<calls, tmpCount, dirs, zips, outFile, cache, reqs, collectOpts, builds, s3, s3log, cfn, opts, fn, cli, walk, env>>

\* An awaited step of the try block rejects: the finally block runs and the
\* error is thrown to the caller.
stepFails(p, at, e) ==
    /\ pr[p].pc = at
    /\ dirs' = finallyDirs(pr[p].stageDir)
    /\ env' = finallyEnv(pr[p])
    /\ pr' = [pr EXCEPT ![p] = afterMakeThrow([pr[p] EXCEPT !.thrown = e], e)]
    /\ UNCHANGED <<calls, tmpCount, zips, outFile, cache, reqs, collectOpts, builds, s3, s3log, cfn, opts, fn, cli, walk>>

CollectFail(p) == stepFails(p, "collect", "collect")

\* fse.writeFile(stubPath, ...) resolves (main.ts:120).
StubDone(p) ==
    /\ pr[p].pc = "stub"
    /\ \E t \in Times :
         dirs' = [dirs EXCEPT ![pr[p].stageDir].tree =
                    treeWrite(@, stubName(pr[p].startPath), stubContent(pr[p].startPath), t)]
    /\ pr' = [pr EXCEPT ![p] = startWalk(pr[p])]
    /\ UNCHANGED <<calls, tmpCount, zips, outFile, cache, reqs, collectOpts, builds, s3, s3log, cfn, opts, fn, cli, walk, env>>

StubFail(p) == stepFails(p, "stub", "stub")

\* fsWalk resolves (main.ts:125) and tmp.file is asked for a name.
WalkDone(p) ==
    /\ pr[p].pc = "walk"
    /\ dirs' = [dirs EXCEPT ![pr[p].stageDir].tree = normalizeTimes(@)]
    /\ pr' = [pr EXCEPT ![p].pc = "tmpfile"]
    /\ UNCHANGED <<calls, tmpCount, zips, outFile, cache, reqs, collectOpts, builds, s3, s3log, cfn, opts, fn, cli, walk, env>>

\* A stat, readdir or utimes of the walk rejects.
WalkFail(p) ==
    /\ pr[p].pc = "walk"
    /\ stepFails(p, "walk", "walk")

\* tmp.file calls back (main.ts:129-133): an empty file exists at zipPath.
TmpFileDone(p) ==
    /\ pr[p].pc = "tmpfile"
    /\ tmpCount < 2 * MaxCalls
    /\ tmpCount' = tmpCount + 1
    /\ zips' = [zips EXCEPT ![tmpCount + 1] = [st |-> "file", bytes |-> {}]]
    /\ pr' = [pr EXCEPT ![p].zipPath = tmpCount + 1, ![p].pc = "rmzip"]
    /\ UNCHANGED <<calls, dirs, outFile, cache, reqs, collectOpts, builds, s3, s3log, cfn, opts, fn, cli, walk, env>>

\* The exit codes of the commands.
ExitCodes == {0, 1, 2}

\* The error child_process emits for a command that cannot be started.
spawnError == <<"spawn zip ENOENT">>

\* A promise whose state follows the last call of resolve or reject.
settle_lastWins(promise, outcome) == outcome

\* resolve() and reject() of the Promise of main.ts:49: the first call
\* settles the promise, later calls do nothing.
settle(promise, outcome) == IF promise.st = "pending" THEN outcome ELSE promise

\* main.ts:49-50: spawn starts the command and returns a pending promise.
spawn(rec) ==
    [rec EXCEPT !.child = "running", !.code = -1, !.promise = [st |-> "pending", msg |-> <<>>]]

\* main.ts:52-58: the handler of "exit".
onExit(rec, code) ==
    [rec EXCEPT !.child = "exited", !.code = code,
                !.promise = settle(@, IF code # 0
                                      THEN [st |-> "rejected",
                                            msg |-> <<"Command failed with exit code ", ToString(code)>>]
                                      ELSE [st |-> "resolved", msg |-> <<>>])]

\* main.ts:51: the handler of "error".
onError(rec, err) ==
    [rec EXCEPT !.child = "failed", !.promise = settle(@, [st |-> "rejected", msg |-> err])]

\* A pipeline that stores the path in the cache when it starts zip.
RemoveZipDone_cacheFirst(p) ==
    /\ pr[p].pc = "rmzip"
    /\ zips' = [zips EXCEPT ![pr[p].zipPath] = NoFile]
    /\ cache' = IF pr[p].cacheId = NoCache THEN cache
                ELSE [cache EXCEPT ![pr[p].cacheId][pr[p].startPath] = pr[p].zipPath]
    /\ pr' = [pr EXCEPT ![p] = spawn([pr[p] EXCEPT !.pc = "zip", !.nZip = @ + 1])]
    /\ UNCHANGED <<calls, tmpCount, dirs, outFile, reqs, collectOpts, builds, s3, s3log, cfn, opts, fn, cli, walk, env>>

\* fse.remove(zipPath) resolves (main.ts:133-134) and zip is spawned.
RemoveZipDone(p) ==
    /\ pr[p].pc = "rmzip"
    /\ zips' = [zips EXCEPT ![pr[p].zipPath] = NoFile]
    /\ pr' = [pr EXCEPT ![p] = spawn([pr[p] EXCEPT !.pc = "zip", !.nZip = @ + 1])]
    /\ UNCHANGED <<calls, tmpCount, dirs, outFile, cache, reqs, collectOpts, builds, s3, s3log, cfn, opts, fn, cli, walk, env>>

\* main.ts:136-138
cacheSet(c, startPath, zipPath) ==
    IF c = NoCache THEN cache ELSE [cache EXCEPT ![c][startPath] = zipPath]

\* The record of a completed build.
buildOf(rec, bytes) ==
    [seq |-> Cardinality(builds) + 1,
     startPath |-> rec.startPath,
     cacheId |-> rec.cacheId,
     zipPath |-> rec.zipPath,
     collected |-> rec.collected,
     stub |-> IF needsStub(rec.startPath)
              THEN <<stubName(rec.startPath), stubContent(rec.startPath)>>
              ELSE <<>>,
     stageDir |-> rec.stageDir,
     optId |-> rec.optId,
     collectArgs |-> rec.collectArgs,
     bytes |-> bytes]

\* zip exits with code 0 (main.ts:134-145): the archive exists, the cache is
\* written, the finally block runs and zipPath is returned.
ZipDone(p) ==
    /\ pr[p].pc = "zip"
    /\ LET bytes == zipBytes(dirs[pr[p].stageDir].tree) IN
         /\ zips' = [zips EXCEPT ![pr[p].zipPath] = [st |-> "file", bytes |-> bytes]]
         /\ builds' = builds \cup {buildOf(pr[p], bytes)}
    /\ cache' = cacheSet(pr[p].cacheId, pr[p].startPath, pr[p].zipPath)
    /\ dirs' = finallyDirs(pr[p].stageDir)
    /\ env' = finallyEnv(pr[p])
    /\ pr' = [pr EXCEPT ![p] = afterMake(onExit(pr[p], 0), pr[p].zipPath)]
    /\ UNCHANGED <<calls, tmpCount, outFile, reqs, collectOpts, s3, s3log, cfn, opts, fn, cli, walk>>

\* A pipeline whose failed zip stores its path in the cache all the same.
spawnRejects_cached(p, rec) ==
    /\ rec.promise.st = "rejected"
    /\ dirs' = finallyDirs(pr[p].stageDir)
    /\ env' = finallyEnv(pr[p])
    /\ cache' = cacheSet(pr[p].cacheId, pr[p].startPath, pr[p].zipPath)
    /\ pr' = [pr EXCEPT ![p] =
                afterMakeThrow([rec EXCEPT !.thrown = "zip", !.msg = rec.promise.msg], "zip")]
    /\ UNCHANGED <<calls, tmpCount, zips, outFile, reqs, collectOpts, builds, s3, s3log, cfn, opts, fn, cli, walk>>

\* The promise of spawn is rejected (main.ts:134, 141-144): the finally
\* block runs and the error is thrown to the caller.
spawnRejects(p, rec) ==
    /\ rec.promise.st = "rejected"
    /\ dirs' = finallyDirs(pr[p].stageDir)
    /\ env' = finallyEnv(pr[p])
    /\ pr' = [pr EXCEPT ![p] =
                afterMakeThrow([rec EXCEPT !.thrown = "zip", !.msg = rec.promise.msg], "zip")]
    /\ UNCHANGED <<calls, tmpCount, zips, outFile, cache, reqs, collectOpts, builds, s3, s3log, cfn, opts, fn, cli, walk>>

\* zip exits with a code other than 0.
ZipFail(p) ==
    /\ pr[p].pc = "zip"
    /\ \E code \in ExitCodes \ {0} : spawnRejects(p, onExit(pr[p], code))

\* zip cannot be started: the child emits "error".
ZipError(p) ==
    /\ pr[p].pc = "zip"
    /\ spawnRejects(p, onError(pr[p], spawnError))

\* A child that emitted "error" emits "exit" as well.
LateExit(p) ==
    /\ pr[p].child = "failed"
    /\ \E code \in ExitCodes : pr' = [pr EXCEPT ![p] = onExit(pr[p], code)]
    /\ UNCHANGED <<calls, tmpCount, dirs, zips, outFile, cache, reqs, collectOpts, builds, s3, s3log, cfn, opts, fn, cli, walk, env>>

\* rimraf of a staging directory, started by the finally block, finishes.
RemoveDone(d) ==
    /\ dirs[d].st = "removing"
    /\ dirs' = [dirs EXCEPT ![d] = [st |-> "removed", tree |-> <<>>]]
    /\ UNCHANGED <<pr, calls, tmpCount, zips, outFile, cache, reqs, collectOpts, s3, s3log, cfn, opts, fn, cli, walk, env>>
    /\ UNCHANGED builds

(***************************************************************************)
(* packageZipLocal (main.ts:151-158).                                      *)
(***************************************************************************)

\* The calls that are in flight.
running == {q \in DOMAIN pr : pr[q].pc \notin {"idle", "done"}}

\* The locals of a call that starts.  The history notes whether it starts
\* while other calls are in flight, and NODE_PATH as it was when the first
\* of them started.
newCall(sink, startPath, c) ==
    [Idle EXCEPT !.sink = sink, !.startPath = startPath, !.cacheId = c, !.out0 = outFile,
                 !.cache0 = cache, !.env0 = env,
                 !.joined = running # {},
                 !.rest0 = IF running = {} THEN env ELSE pr[CHOOSE q \in running : TRUE].rest0]

\* The locals of a call that is given the options object o.
newCallWith(sink, startPath, c, o) ==
    [newCall(sink, startPath, c) EXCEPT !.optId = o, !.opts0 = collectOpts[o]]

\* No call is in flight.
quiet == \A q \in Procs : pr[q].pc \in {"idle", "done"}

\* A caller starts packageZipLocal for one of `paths`, as one of at most
\* `limit` calls made one after the other (main.ts:151-154).
startLocal(p, paths, limit) ==
    /\ quiet
    /\ calls < limit
    /\ calls' = calls + 1
    /\ cfn.pc = "idle"
    /\ \E startPath \in paths, c \in {NoCache} \cup CacheIds :
         makeTmpZipFile(p, newCall("local", startPath, c))
    /\ UNCHANGED <<tmpCount, dirs, zips, outFile, cache, builds, s3, s3log, cfn, opts, fn, cli, walk, env>>

packageZipLocal(p) == startLocal(p, EntryPaths, MaxCalls)

\* A run that makes a single call.
packageZipLocalOnce(p) == startLocal(p, OneCallPaths, 1)

\* A copy that does not overwrite a file at the destination.
CopyDone_keepExisting(p) ==
    /\ pr[p].pc = "copy"
    /\ pr[p].sink = "local"
    /\ outFile' = IF outFile.st = "none" THEN zips[pr[p].tmpPath] ELSE outFile
    /\ pr' = [pr EXCEPT ![p].pc = "done", ![p].result = "resolved", ![p].ret = outZip]
    /\ UNCHANGED <<calls, tmpCount, dirs, zips, cache, reqs, collectOpts, builds, s3, s3log, cfn, opts, fn, cli, walk, env>>

\* fse.copy(tmpPath, outputZipPath) resolves (main.ts:155-157).
CopyDone(p) ==
    /\ pr[p].pc = "copy"
    /\ pr[p].sink = "local"
    /\ outFile' = zips[pr[p].tmpPath]
    /\ pr' = [pr EXCEPT ![p].pc = "done", ![p].result = "resolved", ![p].ret = outZip]
    /\ UNCHANGED <<calls, tmpCount, dirs, zips, cache, reqs, collectOpts, builds, s3, s3log, cfn, opts, fn, cli, walk, env>>

\* fse.copy rejects: what it had written so far stays at outputZipPath.
CopyFail(p) ==
    /\ pr[p].pc = "copy"
    /\ pr[p].sink = "local"
    /\ outFile' \in {outFile, partialFile}
    /\ pr' = [pr EXCEPT ![p].pc = "done", ![p].result = "rejected", ![p].err = "copy"]
    /\ UNCHANGED <<calls, tmpCount, dirs, zips, cache, reqs, collectOpts, builds, s3, s3log, cfn, opts, fn, cli, walk, env>>

\* The steps of the pipeline _makeTmpZipFile of a call that is in flight.
pipelineStep(p) ==
         \/ TmpDirDone(p)
         \/ CollectDone(p)
         \/ CollectFail(p)
         \/ StubDone(p)
         \/ StubFail(p)
         \/ WalkDone(p)
         \/ WalkFail(p)
         \/ TmpFileDone(p)
         \/ RemoveZipDone(p)
         \/ ZipDone(p)
         \/ ZipFail(p)
         \/ ZipError(p)
         \/ LateExit(p)

\* The steps of a packageZipLocal call that is in flight.
step(p) ==
         \/ pipelineStep(p)
         \/ CopyDone(p)
         \/ CopyFail(p)

\* A session of packageZipLocal calls made one after the other.
Next ==
    \/ \E p \in Procs : packageZipLocal(p) \/ step(p)
    \/ \E d \in TmpIds : RemoveDone(d)

Spec == Init /\ [][Next]_vars

\* One packageZipLocal call.
NextOne ==
    \/ \E p \in Procs : packageZipLocalOnce(p) \/ step(p)
    \/ \E d \in TmpIds : RemoveDone(d)

SpecOne == Init /\ [][NextOne]_vars

\* Every awaited operation eventually succeeds or fails, and a removal that
\* was started eventually finishes.
Fairness ==
    /\ \A p \in Procs : WF_vars(step(p))
    /\ \A d \in TmpIds : WF_vars(RemoveDone(d))

SpecLive == Init /\ [][NextOne]_vars /\ Fairness

(***************************************************************************)
(* Callers that do not wait for each other: packageZipLocal is called      *)
(* again, for the same entry path and with the same cache, while a build   *)
(* is in flight.                                                           *)
(***************************************************************************)

Callers == {"p1", "p2"}

\* The cache the concurrent callers share.
sharedCache == CHOOSE c \in CacheIds : TRUE

\* The call is between the cache lookup of main.ts:91 and the end of the
\* try block of main.ts:102-140.
building(rec) == rec.pc \in {"tmpdir", "collect", "stub", "walk", "tmpfile", "rmzip", "zip"}

\* A caller starts packageZipLocal (main.ts:151-154) when no call was made
\* yet, or for the entry path of calls that are still building.
packageZipLocalConcurrent(p) ==
    /\ pr[p].pc = "idle"
    /\ calls' = calls + 1
    /\ \E startPath \in EntryPaths :
         /\ \A q \in Callers \ {p} :
              pr[q].pc = "idle" \/ (building(pr[q]) /\ pr[q].startPath = startPath)
         /\ makeTmpZipFile(p, newCall("local", startPath, sharedCache))
    /\ UNCHANGED <<tmpCount, dirs, zips, outFile, cache, builds, s3, s3log, cfn, opts, fn, cli, walk, env>>

InitConcurrent ==
    /\ StartedWith(Callers)
    /\ outFile = NoFile
    /\ s3 = [b \in BucketNames |-> [st |-> "missing", objects |-> {}]]
    /\ opts = NoOpts

\* Concurrent packageZipLocal calls.
NextConcurrent ==
    \/ \E p \in Callers : packageZipLocalConcurrent(p) \/ step(p)
    \/ \E d \in TmpIds : RemoveDone(d)

SpecConcurrent == InitConcurrent /\ [][NextConcurrent]_vars

(***************************************************************************)
(* packageZipS3 (main.ts:176-226).                                         *)
(***************************************************************************)

\* The values of options.s3Bucket the callers use; "" stands for an option
\* that is not given as well (both are falsy for ||).
S3BucketOpts == {<<>>, bucketB}

\* The values of options.s3Prefix the callers use: "", "a", "a/".
S3Prefixes == {<<>>, <<"a">>, <<"a", Slash>>}

\* The options of the sessions: bucket and prefix, with the caller's cache
\* or without a cache.
S3Opts ==
    {[s3Bucket |-> b, s3Prefix |-> x, cache |-> c] :
        b \in S3BucketOpts, x \in S3Prefixes, c \in {NoCache} \cup CacheIds}

\* main.ts:178
s3BucketOf(opt) == IF opt = <<>> THEN defaultBucket ELSE opt

\* A prefix that is used as given, with no separator added.
keyPrefix_asGiven(s3Prefix) == s3Prefix

\* main.ts:211
keyPrefix(s3Prefix) ==
    IF s3Prefix # <<>> /\ ~endsWith(s3Prefix, Slash) THEN s3Prefix \o <<Slash>> ELSE s3Prefix

\* A key that is made of the prefix alone, the same for every archive.
s3Key_fixed(s3Prefix, zipData) == keyPrefix(s3Prefix) \o <<"code", ".zip">>

\* main.ts:208-212
s3Key(s3Prefix, zipData) == keyPrefix(s3Prefix) \o md5Hex(zipData) \o <<".zip">>

\* s3.listObjectsV2({Bucket, MaxKeys, Prefix}).Contents: the first MaxKeys
\* keys, in ascending order, of the objects whose key starts with Prefix.
listObjectsV2(objects, maxKeys, prefix) ==
    LET first(keys) == SubSeq(keys, 1, IF Len(keys) < maxKeys THEN Len(keys) ELSE maxKeys)
    IN Eval1(first, sortNames({o.key : o \in {x \in objects : startsWith(x.key, prefix)}}))

\* A check that never finds the object.
objectExists_never(contents, key) == FALSE

\* A check that takes any listed object for the archive.
objectExists_anyListed(contents, key) == Len(contents) > 0

\* main.ts:217
objectExists(contents, key) == Len(contents) > 0 /\ contents[1] = key

\* s3.upload({Body, Bucket, Key}): the object at Key is created or replaced.
putObject(objects, key, body) ==
    {o \in objects : o.key # key} \cup {[key |-> key, body |-> body]}

\* What the history keeps of a call that completed.
summary(rec) ==
    [startPath |-> rec.startPath, bucket |-> rec.bucket, prefix |-> rec.prefix,
     hasData |-> rec.hasData, zipData |-> rec.zipData,
     hadKey |-> rec.hadKey, nCollect |-> rec.nCollect, head |-> rec.head,
     exists |-> rec.exists, upload |-> rec.upload,
     result |-> rec.result, loc |-> rec.loc]

\* The calls of packageZipS3 that completed, the one that has just completed included.
s3Completed(p) ==
    IF pr[p].sink = "s3" /\ pr[p].pc = "done" THEN Append(s3log, summary(pr[p])) ELSE s3log

\* main.ts:176-191: packageZipS3 is called; it asks for the bucket.
startS3(p, startPath, bucketOpt, prefixOpt, c) ==
    /\ pr' = [pr EXCEPT ![p] =
                [newCall("s3", startPath, c) EXCEPT
                    !.bucket = s3BucketOf(bucketOpt), !.prefix = prefixOpt, !.pc = "head"]]
    /\ s3log' = s3Completed(p)

\* A caller starts packageZipS3, as one of at most MaxCalls calls made one
\* after the other.
packageZipS3(p) ==
    /\ quiet
    /\ cfn.pc = "idle"
    /\ calls < MaxCalls
    /\ calls' = calls + 1
    /\ \E startPath \in S3Paths :
         startS3(p, startPath, opts.s3Bucket, opts.s3Prefix, opts.cache)
    /\ UNCHANGED <<tmpCount, dirs, zips, outFile, cache, reqs, collectOpts, builds, s3, cfn, opts, fn, cli, walk, env>>

\* The call rejects with error e.
s3Reject(p, e) ==
    /\ pr' = [pr EXCEPT ![p].pc = "done", ![p].result = "rejected", ![p].err = e]
    /\ UNCHANGED <<calls, tmpCount, dirs, zips, outFile, cache, reqs, collectOpts, builds, s3, s3log, cfn, opts, fn, cli, walk, env>>

\* headBucket resolves (main.ts:190-191, 204): the pipeline is entered.
HeadDone(p) ==
    /\ pr[p].pc = "head"
    /\ s3[pr[p].bucket].st = "ok"
    /\ makeTmpZipFile(p, [pr[p] EXCEPT !.head = "ok"])
    /\ UNCHANGED <<calls, tmpCount, dirs, zips, outFile, cache, builds, s3, s3log, cfn, opts, fn, cli, walk, env>>

\* main.ts:194: the message of the error thrown for a bucket that cannot be
\* read.
cantRead(s3Bucket) ==
    <<"Can't read s3://">> \o s3Bucket \o <<": grant AWS permissions or change --s3-bucket">>

\* A bucket check that tries to create a bucket it may not read.
HeadForbidden_create(p) ==
    /\ pr[p].pc = "head"
    /\ s3[pr[p].bucket].st = "forbidden"
    /\ pr' = [pr EXCEPT ![p].pc = "create", ![p].head = "Forbidden", ![p].nCreate = @ + 1]
    /\ UNCHANGED <<calls, tmpCount, dirs, zips, outFile, cache, reqs, collectOpts, builds, s3, s3log, cfn, opts, fn, cli, walk, env>>

\* headBucket rejects with code Forbidden (main.ts:193-195).
HeadForbidden(p) ==
    /\ pr[p].pc = "head"
    /\ s3[pr[p].bucket].st = "forbidden"
    /\ pr' = [pr EXCEPT ![p].pc = "done", ![p].result = "rejected", ![p].err = "cant-read",
                        ![p].head = "Forbidden", ![p].msg = cantRead(pr[p].bucket)]
    /\ UNCHANGED <<calls, tmpCount, dirs, zips, outFile, cache, reqs, collectOpts, builds, s3, s3log, cfn, opts, fn, cli, walk, env>>

\* headBucket rejects with code NotFound (main.ts:199-200): the bucket is
\* requested.
HeadNotFound(p) ==
    /\ pr[p].pc = "head"
    /\ s3[pr[p].bucket].st = "missing"
    /\ pr' = [pr EXCEPT ![p].pc = "create", ![p].head = "NotFound", ![p].nCreate = @ + 1]
    /\ UNCHANGED <<calls, tmpCount, dirs, zips, outFile, cache, reqs, collectOpts, builds, s3, s3log, cfn, opts, fn, cli, walk, env>>

\* headBucket rejects with another code (main.ts:196-198).
HeadFail(p) ==
    /\ pr[p].pc = "head"
    /\ pr' = [pr EXCEPT ![p].pc = "done", ![p].result = "rejected", ![p].err = "head",
                        ![p].head = "other"]
    /\ UNCHANGED <<calls, tmpCount, dirs, zips, outFile, cache, reqs, collectOpts, builds, s3, s3log, cfn, opts, fn, cli, walk, env>>

\* createBucket resolves (main.ts:200, 204): the bucket exists and the
\* pipeline is entered.
CreateDone(p) ==
    /\ pr[p].pc = "create"
    /\ s3' = [s3 EXCEPT ![pr[p].bucket].st = "ok"]
    /\ makeTmpZipFile(p, pr[p])
    /\ UNCHANGED <<calls, tmpCount, dirs, zips, outFile, cache, builds, s3log, cfn, opts, fn, cli, walk, env>>

CreateFail(p) ==
    /\ pr[p].pc = "create"
    /\ s3Reject(p, "create")

\* fse.readFile(tmpPath) resolves (main.ts:205-216): the key is computed and
\* the listing requested.
ReadFileDone(p) ==
    /\ pr[p].pc = "readfile"
    /\ pr[p].sink = "s3"
    /\ zips[pr[p].tmpPath].st = "file"
    /\ LET zipData == zips[pr[p].tmpPath].bytes IN
         pr' = [pr EXCEPT ![p].zipData = zipData, ![p].hasData = TRUE,
                          ![p].loc = [bucket |-> pr[p].bucket, key |-> s3Key(pr[p].prefix, zipData)],
                          ![p].pc = "list"]
    /\ UNCHANGED <<calls, tmpCount, dirs, zips, outFile, cache, reqs, collectOpts, builds, s3, s3log, cfn, opts, fn, cli, walk, env>>

ReadFileFail(p) ==
    /\ pr[p].pc = "readfile"
    /\ pr[p].sink = "s3"
    /\ s3Reject(p, "readfile")

\* listObjectsV2 resolves (main.ts:216-225): the call returns when the object
\* exists, else the upload is started.
ListDone(p) ==
    /\ pr[p].pc = "list"
    /\ LET contents == listObjectsV2(s3[pr[p].bucket].objects, 1, pr[p].loc.key)
           exists == objectExists(contents, pr[p].loc.key)
       IN
         pr' = [pr EXCEPT ![p].exists = exists,
                          ![p].pc = IF exists THEN "done" ELSE "upload",
                          ![p].result = IF exists THEN "resolved" ELSE @]
    /\ UNCHANGED <<calls, tmpCount, dirs, zips, outFile, cache, reqs, collectOpts, builds, s3, s3log, cfn, opts, fn, cli, walk, env>>

ListFail(p) ==
    /\ pr[p].pc = "list"
    /\ s3Reject(p, "list")

\* s3.upload resolves (main.ts:222-225).
UploadDone(p) ==
    /\ pr[p].pc = "upload"
    /\ s3' = [s3 EXCEPT ![pr[p].bucket].objects = putObject(@, pr[p].loc.key, pr[p].zipData)]
    /\ pr' = [pr EXCEPT ![p].upload = "ok", ![p].pc = "done", ![p].result = "resolved"]
    /\ UNCHANGED <<calls, tmpCount, dirs, zips, outFile, cache, reqs, collectOpts, builds, s3log, cfn, opts, fn, cli, walk, env>>

\* s3.upload rejects: no object is stored.
UploadFail(p) ==
    /\ pr[p].pc = "upload"
    /\ pr' = [pr EXCEPT ![p].upload = "failed", ![p].pc = "done", ![p].result = "rejected",
                        ![p].err = "upload"]
    /\ UNCHANGED <<calls, tmpCount, dirs, zips, outFile, cache, reqs, collectOpts, builds, s3, s3log, cfn, opts, fn, cli, walk, env>>

\* The steps of a packageZipS3 call outside the pipeline.
s3Step(p) ==
         \/ HeadDone(p)
         \/ HeadForbidden(p)
         \/ HeadNotFound(p)
         \/ HeadFail(p)
         \/ CreateDone(p)
         \/ CreateFail(p)
         \/ ReadFileDone(p)
         \/ ReadFileFail(p)
         \/ ListDone(p)
         \/ ListFail(p)
         \/ UploadDone(p)
         \/ UploadFail(p)

\* A bucket exists ("ok"), does not ("missing"), or belongs to an account
\* that does not let this one read it ("forbidden"); none holds an archive
\* at the start of a session.
bucketsAt(d, b) ==
    (defaultBucket :> [st |-> d, objects |-> {}]) @@ (bucketB :> [st |-> b, objects |-> {}])

BucketInits == {bucketsAt("ok", "forbidden"), bucketsAt("missing", "ok")}

\* The start of a session that packages to S3.
InitS3 ==
    /\ Started
    /\ outFile = NoFile
    /\ s3 \in BucketInits
    /\ opts \in S3Opts

\* A session of packageZipS3 calls made one after the other.
NextS3 ==
    \/ \E p \in Procs : packageZipS3(p) \/ pipelineStep(p) \/ s3Step(p)
    \/ \E d \in TmpIds : RemoveDone(d)

SpecS3 == InitS3 /\ [][NextS3]_vars

\* A caller starts packageZipS3 (main.ts:176-191) whatever the other callers
\* are doing.
packageZipS3Concurrent(p) ==
    /\ pr[p].pc = "idle"
    /\ calls' = calls + 1
    /\ \E startPath \in S3Paths :
         startS3(p, startPath, opts.s3Bucket, opts.s3Prefix, opts.cache)
    /\ UNCHANGED <<tmpCount, dirs, zips, outFile, cache, reqs, collectOpts, builds, s3, cfn, opts, fn, cli, walk, env>>

\* The options of the concurrent sessions.
S3ConcurrentOpts ==
    {[s3Bucket |-> <<>>, s3Prefix |-> <<>>, cache |-> NoCache],
     [s3Bucket |-> bucketB, s3Prefix |-> <<"a">>, cache |-> sharedCache]}

\* The start of a session of concurrent packageZipS3 calls: the buckets
\* exist and are empty.
InitS3Concurrent ==
    /\ StartedWith(Callers)
    /\ outFile = NoFile
    /\ opts \in S3ConcurrentOpts
    /\ s3 = [b \in BucketNames |-> [st |-> "ok", objects |-> {}]]

NextS3Concurrent ==
    \/ \E p \in Callers :
         \/ packageZipS3Concurrent(p)
         \/ pipelineStep(p)
         \/ HeadDone(p)
         \/ HeadFail(p)
         \/ ReadFileDone(p)
         \/ ReadFileFail(p)
         \/ ListDone(p)
         \/ ListFail(p)
         \/ UploadDone(p)
         \/ UploadFail(p)
    \/ \E d \in TmpIds : RemoveDone(d)

SpecS3Concurrent == InitS3Concurrent /\ [][NextS3Concurrent]_vars

\* The archive the pipeline makes of an entry and one output of the
\* collector (main.ts:109-134).
archiveOf(startPath, files) ==
    LET staged == treeWriteAll(emptyTree(1), files, 1)
        stubbed == IF needsStub(startPath)
                   THEN treeWrite(staged, stubName(startPath), stubContent(startPath), 1)
                   ELSE staged
    IN zipBytes(normalizeTimes(stubbed))

\* Objects a bucket may hold before the session: for the archive of an
\* entry that imports nothing, the object at its key, and an object of
\* another program whose key starts with that key.
ForeignObjects(s3Prefix) ==
    UNION {{[key |-> s3Key(s3Prefix, archiveOf(e, files)), body |-> archiveOf(e, files)],
            [key |-> s3Key(s3Prefix, archiveOf(e, files)) \o <<".", "bar">>, body |-> {}]} :
           e \in S3Paths, files \in {c \in collectOutputs(libBarJs) : Cardinality(DOMAIN c) = 1}}

\* The options of the sessions whose buckets hold objects.
S3ObjectOpts ==
    {[s3Bucket |-> <<>>, s3Prefix |-> <<>>, cache |-> NoCache],
     [s3Bucket |-> bucketB, s3Prefix |-> <<"a">>, cache |-> CHOOSE c \in CacheIds : TRUE]}

\* The start of a session that packages to buckets that hold objects.
InitS3Objects ==
    /\ Started
    /\ outFile = NoFile
    /\ opts \in S3ObjectOpts
    /\ \E objs \in SUBSET ForeignObjects(opts.s3Prefix) :
         s3 = [b \in BucketNames |-> [st |-> "ok", objects |-> objs]]

NextS3Objects ==
    \/ \E p \in Procs :
         \/ packageZipS3(p)
         \/ pipelineStep(p)
         \/ HeadDone(p)
         \/ HeadFail(p)
         \/ ReadFileDone(p)
         \/ ReadFileFail(p)
         \/ ListDone(p)
         \/ ListFail(p)
         \/ UploadDone(p)
         \/ UploadFail(p)
    \/ \E d \in TmpIds : RemoveDone(d)

SpecS3Objects == InitS3Objects /\ [][NextS3Objects]_vars

(***************************************************************************)
(* cloudformationPackage (main.ts:282-324).                                *)
(***************************************************************************)

\* A template value that is a string, and one that is an object.
Str(v) == [t |-> "string", v |-> v]

Obj(v) == [t |-> "object", v |-> v]

LambdaFunction == "AWS::Lambda::Function"

ServerlessFunction == "AWS::Serverless::Function"

\* The template file, beside lib/bar.js and one level below foo.js.
templatePath == <<"lib", Slash, "cfn", ".yml">>

\* The files that exist (fse.pathExists).
SourceFiles == {absFooJs, absLibBarJs}

barHere == Str(<<"bar", ".js">>)

fooAbove == Str(<<"..", Slash, "foo", ".js">>)

\* Two functions of the two kinds on the same file, and a resource of
\* another type that has both properties.
TemplateSameFile ==
    [AWSTemplateFormatVersion |-> Str(<<"2010-09-09">>),
     Transform |-> Str(<<"AWS::Serverless-2016-10-31">>),
     Resources |->
       <<[Key |-> "MyFunction", Type |-> ServerlessFunction,
          Properties |-> [Handler |-> Str(<<"index.handler">>), CodeUri |-> barHere]],
         [Key |-> "MyFunction2", Type |-> LambdaFunction,
          Properties |-> [Runtime |-> Str(<<"nodejs6.10">>), Code |-> barHere]],
         [Key |-> "Queue", Type |-> "AWS::SQS::Queue",
          Properties |-> [Code |-> barHere, CodeUri |-> barHere]]>>]

\* Properties that are skipped: an object, the other kind's property, an
\* URL, no properties at all, a file that does not exist; and one file above
\* the template.
TemplateSkips ==
    [AWSTemplateFormatVersion |-> Str(<<"2010-09-09">>),
     Resources |->
       <<[Key |-> "A", Type |-> LambdaFunction,
          Properties |-> [Code |-> Obj([S3Bucket |-> <<"x">>, S3Key |-> <<"y">>]), CodeUri |-> barHere]],
         [Key |-> "B", Type |-> ServerlessFunction,
          Properties |-> [CodeUri |-> Str(<<"s3:", Slash, Slash, "x", Slash, "y">>), Code |-> barHere]],
         [Key |-> "C", Type |-> LambdaFunction],
         [Key |-> "D", Type |-> LambdaFunction,
          Properties |-> [Code |-> Str(<<"missing", ".js">>)]],
         [Key |-> "E", Type |-> ServerlessFunction,
          Properties |-> [CodeUri |-> fooAbove, Timeout |-> Str(<<"3">>)]]>>]

\* Two functions on two files.
TemplateTwoFiles ==
    [Description |-> Str(<<"two">>),
     Resources |->
       <<[Key |-> "F", Type |-> LambdaFunction, Properties |-> [Code |-> fooAbove]],
         [Key |-> "G", Type |-> ServerlessFunction, Properties |-> [CodeUri |-> barHere]]>>]

\* A template without resources.
TemplateNoResources == [AWSTemplateFormatVersion |-> Str(<<"2010-09-09">>)]

\* Properties that hold an http and an https URL, before a function on a
\* local file.
TemplateUrls ==
    [AWSTemplateFormatVersion |-> Str(<<"2010-09-09">>),
     Resources |->
       <<[Key |-> "H", Type |-> ServerlessFunction,
          Properties |-> [CodeUri |-> Str(<<"http:", Slash, Slash, "x", Slash, "y">>)]],
         [Key |-> "I", Type |-> LambdaFunction,
          Properties |-> [Code |-> Str(<<"https:", Slash, Slash, "x", Slash, "y">>)]],
         [Key |-> "J", Type |-> LambdaFunction, Properties |-> [Code |-> barHere]]>>]

Templates == {TemplateSameFile, TemplateSkips, TemplateTwoFiles, TemplateNoResources, TemplateUrls}

\* A rewriting that takes every resource that is not a serverless function
\* for a lambda function.
codeProp_anyType(type) ==
    IF type = ServerlessFunction THEN "CodeUri" ELSE "Code"

\* main.ts:315-321: the property that is rewritten in a resource of this
\* type, "" when there is none.
codeProp(type) ==
    IF type = LambdaFunction THEN "Code"
    ELSE IF type = ServerlessFunction THEN "CodeUri"
    ELSE ""

\* main.ts:317, 320: the converters.
convert(prop, loc) ==
    IF prop = "Code" THEN Obj([S3Bucket |-> loc.bucket, S3Key |-> loc.key])
    ELSE Str(<<"s3:", Slash, Slash>> \o loc.bucket \o <<Slash>> \o loc.key)

\* /^(s3|https?):\/\//.test(v)
isUrl(v) ==
    \E scheme \in {"s3:", "http:", "https:"} : startsWith(v, <<scheme, Slash, Slash>>)

\* main.ts:294-302: resolveCfnPath gets as far as looking for the file.
isPath(res, prop) ==
    /\ "Properties" \in DOMAIN res
    /\ prop \in DOMAIN res.Properties
    /\ res.Properties[prop].t = "string"
    /\ ~isUrl(res.Properties[prop].v)

\* main.ts:303
cfnPathOf(tPath, res) ==
    pathResolve(pathDirname(tPath), res.Properties[codeProp(res.Type)].v)

\* main.ts:313-322: the first resource at or after position `from` for which
\* the loop awaits fse.pathExists, 0 when the loop runs to its end.
nextAwait(template, from) ==
    LET R == template.Resources
        S == {j \in from..Len(R) : codeProp(R[j].Type) # "" /\ isPath(R[j], codeProp(R[j].Type))}
    IN IF S = {} THEN 0 ELSE CHOOSE j \in S : \A k \in S : j <= k

\* The loop runs from position `from` to its next await, or to the return.
cfnAdvance(c, from) ==
    LET j == nextAwait(c.template, from) IN
    IF j = 0 THEN [c EXCEPT !.pc = "done", !.result = "resolved"]
    ELSE [c EXCEPT !.pc = "exists", !.i = j]

\* A transform for which a file that does not exist is fatal.
cfnSkip_fatal(c) ==
    [c EXCEPT !.pc = "done", !.result = "rejected", !.err = "ENOENT"]

\* main.ts:304-307: the file does not exist; resolveCfnPath returns and the
\* loop goes on with the next resource.
cfnSkip(c) == cfnAdvance(c, c.i + 1)

\* main.ts:309: resource.Properties[prop] = converter(s3Info)
setProp(template, i, prop, v) ==
    [template EXCEPT !.Resources[i].Properties[prop] = v]

\* A transform that passes the caller's options on as they are.
cfnCache_asGiven(c, n) == c

\* A transform that keeps one Map for all its runs, as the module-level
\* cache of the earlier version did.
cfnCache_oneMap(c, n) == IF c = NoCache THEN newMap(1) ELSE c

\* main.ts:287-289: the cache of the n-th run of the transform is the
\* caller's, or a new Map when the caller gave none.
cfnCache(c, n) == IF c = NoCache THEN newMap(n) ELSE c

\* main.ts:282-285: the locals of a call that waits for readFile.
cfnCall(template) ==
    [CfnIdle EXCEPT !.pc = "read", !.templatePath = templatePath, !.input = template]

\* cloudformationPackage is called (main.ts:282-285): the template is read.
cloudformationPackage(p) ==
    /\ cfn.pc = "idle"
    /\ quiet
    /\ calls = 0
    /\ calls' = 1
    /\ \E template \in Templates : cfn' = cfnCall(template)
    /\ UNCHANGED <<pr, tmpCount, dirs, zips, outFile, cache, reqs, collectOpts, builds, s3, s3log, opts, fn, cli, walk, env>>

\* The text of a template file: the object it denotes and the syntax it is
\* written in ("json", "yaml", or "none" for a text that is neither).
\* JSON.parse accepts JSON; yamlParse accepts YAML, of which JSON is a part.
jsonParses(text) == text.syntax = "json"

yamlParses(text) == text.syntax \in {"json", "yaml"}

\* main.ts:286: path.extname(templatePath), the extension with its dot.
extname(p) == pathParse(p).ext

\* main.ts:254-263: the parsed object, or the message of the error thrown;
\* `parsers` are the parsers that were tried.  ext is compared with the
\* string "json".
parseTemplate(text, ext) ==
    IF jsonParses(text)
    THEN [ok |-> TRUE, v |-> text.v, parsers |-> <<"json">>, msg |-> <<>>]
    ELSE IF ext = <<"json">>
    THEN [ok |-> FALSE, v |-> text.v, parsers |-> <<"json">>,
          msg |-> <<"Unable to parse JSON template">>]
    ELSE IF yamlParses(text)
    THEN [ok |-> TRUE, v |-> text.v, parsers |-> <<"json", "yaml">>, msg |-> <<>>]
    ELSE [ok |-> FALSE, v |-> text.v, parsers |-> <<"json", "yaml">>,
          msg |-> <<"Unable to parse YAML template">>]

\* readFile resolves (main.ts:285-322): the text is parsed, the cache is the
\* caller's or a new one, and the loop over the resources starts.
CfnReadDone(p) ==
    /\ cfn.pc = "read"
    /\ LET parsed == parseTemplate([syntax |-> cfn.syntax, v |-> cfn.input],
                                   extname(cfn.templatePath))
       IN
       cfn' = IF ~parsed.ok
              THEN [cfn EXCEPT !.pc = "done", !.result = "rejected", !.err = "parse",
                               !.parsers = parsed.parsers, !.msg = parsed.msg]
              ELSE IF "Resources" \in DOMAIN parsed.v
              THEN cfnAdvance([cfn EXCEPT !.template = parsed.v, !.parsers = parsed.parsers,
                                          !.cacheId = cfnCache(opts.cache, calls)], 1)
              ELSE [cfn EXCEPT !.pc = "done", !.result = "rejected", !.err = "TypeError",
                               !.parsers = parsed.parsers]
    /\ UNCHANGED <<pr, calls, tmpCount, dirs, zips, outFile, cache, reqs, collectOpts, builds, s3, s3log, opts, fn, cli, walk, env>>

\* readFile rejects.
CfnReadFail(p) ==
    /\ cfn.pc = "read"
    /\ cfn' = [cfn EXCEPT !.pc = "done", !.result = "rejected", !.err = "read"]
    /\ UNCHANGED <<pr, calls, tmpCount, dirs, zips, outFile, cache, reqs, collectOpts, builds, s3, s3log, opts, fn, cli, walk, env>>

\* A loop that starts packageZipS3 and goes on to the next resource without
\* waiting for it, as a Promise.all over the resources does.
awaitCall_all(c, p) == cfnAdvance([c EXCEPT !.caller = p], c.i + 1)

\* main.ts:308, 316, 319: resolveCfnPath awaits packageZipS3 and the loop
\* awaits resolveCfnPath.
awaitCall(c, p) == [c EXCEPT !.pc = "call", !.caller = p]

\* The call that is started runs as the first caller that has no call in
\* flight.
freeCaller == CHOOSE q \in DOMAIN pr : pr[q].pc \in {"idle", "done"}

\* fse.pathExists resolves (main.ts:304-308): packageZipS3 is called for a
\* file that exists, else the loop goes on.
CfnPathExists(p) ==
    /\ cfn.pc = "exists"
    /\ LET cfnPath == cfnPathOf(cfn.templatePath, cfn.template.Resources[cfn.i]) IN
       IF cfnPath \in SourceFiles
       THEN /\ \E q \in DOMAIN pr : pr[q].pc \in {"idle", "done"}
            /\ p = freeCaller
            /\ startS3(p, cfnPath, opts.s3Bucket, opts.s3Prefix, cfn.cacheId)
            /\ cfn' = awaitCall(cfn, p)
       ELSE /\ cfn' = cfnSkip(cfn)
            /\ UNCHANGED <<pr, s3log>>
    /\ UNCHANGED <<calls, tmpCount, dirs, zips, outFile, cache, reqs, collectOpts, builds, s3, opts, fn, cli, walk, env>>

\* A transform that treats a failed packageZipS3 like a skip.
cfnThrow_skip(c, e) == cfnAdvance(c, c.i + 1)

\* A transform that goes on waiting when the awaited call has failed.
cfnThrow_wait(c, e) == c

\* main.ts:308: the awaited packageZipS3 rejects; nothing catches the error
\* in resolveCfnPath or in the loop, so the transform is rejected with it.
cfnThrow(c, e) == [c EXCEPT !.pc = "done", !.result = "rejected", !.err = e]

\* packageZipS3 has completed (main.ts:308-310): the property is replaced
\* and the loop goes on, or the error is thrown to the caller.
CfnCallDone(p) ==
    /\ cfn.pc = "call"
    /\ cfn.caller = p
    /\ pr[p].pc = "done"
    /\ LET res == cfn.template.Resources[cfn.i]
           prop == codeProp(res.Type)
       IN
       cfn' = IF pr[p].result = "resolved"
              THEN cfnAdvance(
                     [cfn EXCEPT !.template = setProp(@, cfn.i, prop, convert(prop, pr[p].loc)),
                                 !.locs = Append(@, [i |-> cfn.i, path |-> pr[p].startPath,
                                                     loc |-> pr[p].loc])],
                     cfn.i + 1)
              ELSE cfnThrow(cfn, pr[p].err)
    /\ UNCHANGED <<pr, calls, tmpCount, dirs, zips, outFile, cache, reqs, collectOpts, builds, s3, s3log, opts, fn, cli, walk, env>>

\* cloudformationPackage is called (main.ts:282-285) when no call is in
\* flight, as one of at most MaxCalls runs over the same template.
cloudformationPackageRun(p) ==
    /\ cfn.pc \in {"idle", "done"}
    /\ quiet
    /\ calls < MaxCalls
    /\ calls' = calls + 1
    /\ cfn' = cfnCall(TemplateSameFile)
    /\ UNCHANGED <<pr, tmpCount, dirs, zips, outFile, cache, reqs, collectOpts, builds, s3, s3log, opts, fn, cli, walk, env>>

\* The options of the cloudformationPackage sessions.
CfnOpts ==
    {[s3Bucket |-> <<>>, s3Prefix |-> <<>>, cache |-> NoCache],
     [s3Bucket |-> bucketB, s3Prefix |-> <<"a">>, cache |-> CHOOSE c \in CacheIds : TRUE]}

InitCfn ==
    /\ Started
    /\ outFile = NoFile
    /\ s3 \in BucketInits
    /\ opts \in CfnOpts

\* One cloudformationPackage call.
NextCfn ==
    \/ \E p \in Procs :
         \/ cloudformationPackage(p)
         \/ CfnReadDone(p)
         \/ CfnReadFail(p)
         \/ CfnPathExists(p)
         \/ CfnCallDone(p)
         \/ pipelineStep(p)
         \/ s3Step(p)
    \/ \E d \in TmpIds : RemoveDone(d)

SpecCfn == InitCfn /\ [][NextCfn]_vars

\* The steps of a packageZipS3 call whose bucket exists and may be read.
s3StepInBucket(p) ==
         \/ HeadDone(p)
         \/ HeadFail(p)
         \/ ReadFileDone(p)
         \/ ReadFileFail(p)
         \/ ListDone(p)
         \/ ListFail(p)
         \/ UploadDone(p)
         \/ UploadFail(p)

\* Several cloudformationPackage runs, one after the other.
NextCfnRuns ==
    \/ \E p \in Procs :
         \/ cloudformationPackageRun(p)
         \/ CfnReadDone(p)
         \/ CfnReadFail(p)
         \/ CfnPathExists(p)
         \/ CfnCallDone(p)
         \/ pipelineStep(p)
         \/ s3StepInBucket(p)
    \/ \E d \in TmpIds : RemoveDone(d)

\* The buckets exist and hold nothing.
InitCfnRuns ==
    /\ Started
    /\ outFile = NoFile
    /\ s3 = [b \in BucketNames |-> [st |-> "ok", objects |-> {}]]
    /\ opts \in CfnOpts

SpecCfnRuns == InitCfnRuns /\ [][NextCfnRuns]_vars

\* The template files of the calls that differ in extension and syntax.
templateJson == <<"lib", Slash, "cfn", ".json">>

TemplatePaths == {templatePath, templateJson}

Syntaxes == {"json", "yaml", "none"}

\* cloudformationPackage is called (main.ts:282-285) for a template file of
\* either extension, written in either syntax or in none.
cloudformationPackageAny(p) ==
    /\ cfn.pc = "idle"
    /\ quiet
    /\ calls = 0
    /\ calls' = 1
    /\ \E template \in {TemplateSameFile, TemplateNoResources}, path \in TemplatePaths,
          syntax \in Syntaxes :
         cfn' = [cfnCall(template) EXCEPT !.templatePath = path, !.syntax = syntax]
    /\ UNCHANGED <<pr, tmpCount, dirs, zips, outFile, cache, reqs, collectOpts, builds, s3, s3log, opts, fn, cli, walk, env>>

NextParse ==
    \/ \E p \in Procs :
         \/ cloudformationPackageAny(p)
         \/ CfnReadDone(p)
         \/ CfnReadFail(p)
         \/ CfnPathExists(p)
         \/ CfnCallDone(p)
         \/ pipelineStep(p)
         \/ s3Step(p)
    \/ \E d \in TmpIds : RemoveDone(d)

\* One cloudformationPackage call for a template of any extension and
\* syntax.
SpecParse == InitCfn /\ [][NextParse]_vars

\* One cloudformationPackage call in a process in which two packageZipS3
\* calls can be in flight at a time.
InitCfnCallers ==
    /\ StartedWith(Callers)
    /\ outFile = NoFile
    /\ s3 \in BucketInits
    /\ opts \in CfnOpts

NextCfnCallers ==
    \/ \E p \in Callers :
         \/ cloudformationPackage(p)
         \/ CfnReadDone(p)
         \/ CfnReadFail(p)
         \/ CfnPathExists(p)
         \/ CfnCallDone(p)
         \/ pipelineStep(p)
         \/ s3Step(p)
    \/ \E d \in TmpIds : RemoveDone(d)

SpecCfnCallers == InitCfnCallers /\ [][NextCfnCallers]_vars

(***************************************************************************)
(* updateLambda (main.ts:238-252).                                         *)
(***************************************************************************)

\* fse.readFile(tmpPath) resolves (main.ts:247-248): updateFunctionCode is
\* requested with the bytes.
LambdaReadDone(p) ==
    /\ pr[p].pc = "readfile"
    /\ pr[p].sink = "lambda"
    /\ zips[pr[p].tmpPath].st = "file"
    /\ pr' = [pr EXCEPT ![p].zipData = zips[pr[p].tmpPath].bytes, ![p].hasData = TRUE,
                        ![p].pc = "update"]
    /\ UNCHANGED <<calls, tmpCount, dirs, zips, outFile, cache, reqs, collectOpts, builds, s3, s3log, cfn, opts, fn, cli, walk, env>>

LambdaReadFail(p) ==
    /\ pr[p].pc = "readfile"
    /\ pr[p].sink = "lambda"
    /\ s3Reject(p, "readfile")

\* lambda.updateFunctionCode resolves (main.ts:248-251): the function has the
\* new code and the response is returned.
UpdateDone(p) ==
    /\ pr[p].pc = "update"
    /\ fn' = [code |-> [st |-> "file", bytes |-> pr[p].zipData], updates |-> fn.updates + 1]
    /\ pr' = [pr EXCEPT ![p].pc = "done", ![p].result = "resolved"]
    /\ UNCHANGED <<calls, tmpCount, dirs, zips, outFile, cache, reqs, collectOpts, builds, s3, s3log, cfn, opts, cli, walk, env>>

\* lambda.updateFunctionCode rejects: the function keeps its code.
UpdateFail(p) ==
    /\ pr[p].pc = "update"
    /\ s3Reject(p, "update")

\* The steps of an updateLambda call outside the pipeline.
lambdaStep(p) ==
         \/ LambdaReadDone(p)
         \/ LambdaReadFail(p)
         \/ UpdateDone(p)
         \/ UpdateFail(p)

(***************************************************************************)
(* The command line: main and dispatchWork (main.ts:347-398), and          *)
(* cloudformationPackageOutput (main.ts:332-342).                          *)
(***************************************************************************)

\* The flags that select work (main.ts:351-355).
Modes == {"lambda", "zip", "s3", "cfn"}

\* The start file of the invocations.
startFile == libBarJs

\* main.ts:395-397: the order of the calls of dispatchWork.
StageOrder == <<"zip", "s3", "lambda">>

\* main.ts:395-397: the first call at a position after k whose flag is
\* given, "resolved" when dispatchWork returns.
nextStage(flags, k) ==
    LET S == {j \in (k + 1)..Len(StageOrder) : StageOrder[j] \in flags} IN
    IF S = {} THEN "resolved" ELSE StageOrder[CHOOSE j \in S : \A o \in S : j <= o]

\* main.ts:390-394: --cfn comes first and excludes the other calls.
firstStage(flags) == IF "cfn" \in flags THEN "cfn" ELSE nextStage(flags, 0)

\* The position of a stage in StageOrder.
stageIndex(stage) == CHOOSE j \in 1..Len(StageOrder) : StageOrder[j] = stage

\* An invocation that passes no cache to the calls it makes.
cacheOfRun_none(o) == NoCache

\* main.ts:380-382: the options of every call of the invocation hold the one
\* Map that main created.
cacheOfRun(o) == o.cache

\* dispatchWork runs to its next await (main.ts:389-398): it calls the
\* function of the stage, or returns.
dispatchCall(p, c, stage) ==
    CASE stage = "cfn" ->
           /\ \E template \in Templates : cfn' = cfnCall(template)
           /\ cli' = [c EXCEPT !.pc = "await", !.stage = stage]
           /\ UNCHANGED <<pr, reqs, collectOpts, s3log>>
      [] stage = "zip" ->
           /\ makeTmpZipFile(p, newCall("local", startFile, cacheOfRun(opts)))
           /\ s3log' = s3Completed(p)
           /\ cli' = [c EXCEPT !.pc = "await", !.stage = stage]
           /\ UNCHANGED cfn
      [] stage = "s3" ->
           /\ startS3(p, startFile, opts.s3Bucket, opts.s3Prefix, cacheOfRun(opts))
           /\ cli' = [c EXCEPT !.pc = "await", !.stage = stage]
           /\ UNCHANGED <<reqs, collectOpts, cfn>>
      [] stage = "lambda" ->
           /\ makeTmpZipFile(p, newCall("lambda", startFile, cacheOfRun(opts)))
           /\ s3log' = s3Completed(p)
           /\ cli' = [c EXCEPT !.pc = "await", !.stage = stage]
           /\ UNCHANGED cfn
      [] OTHER ->
           /\ cli' = [c EXCEPT !.pc = "resolved", !.stage = ""]
           /\ UNCHANGED <<pr, reqs, collectOpts, s3log, cfn>>

\* The values of --cfn <output-path>: "-" for stdout, or a file.
dash == <<"-">>

OutputPaths == {dash, <<"out", ".json">>}

\* main.ts:335: JSON.stringify(template, null, 2)
stringify(template) == [t |-> "json", v |-> template]

\* An output that always goes to the file outputPath.
toStdout_never(outputPath) == FALSE

\* main.ts:337
toStdout(outputPath) == outputPath = dash

\* main (main.ts:347-382): the flags are parsed; the help is printed when
\* there is no start file or no flag that selects work, else dispatchWork is
\* called.
main(p) ==
    /\ cli.pc = "idle"
    /\ \E flags \in SUBSET Modes, nargs \in {0, 1} :
         IF nargs = 0 \/ flags = {}
         THEN /\ cli' = [cli EXCEPT !.pc = "returned", !.flags = flags, !.nargs = nargs]
              /\ UNCHANGED <<pr, reqs, collectOpts, s3log, cfn>>
         ELSE \E out \in (IF "cfn" \in flags THEN OutputPaths ELSE {<<>>}) :
                dispatchCall(p, [cli EXCEPT !.flags = flags, !.nargs = nargs, !.outputPath = out],
                             firstStage(flags))
    /\ UNCHANGED <<calls, tmpCount, dirs, zips, outFile, cache, builds, s3, opts, fn, walk, env>>

\* A handler that reports the error and lets the process end.
onRejected_logOnly(c, e) ==
    [c EXCEPT !.pc = "resolved", !.reported = e]

\* main.ts:383-386: the error message is logged and the process exits with
\* code 1.
onRejected(c, e) ==
    [c EXCEPT !.pc = "exited", !.exit = 1, !.reported = e]

\* The call dispatchWork awaits settles (main.ts:395-397): dispatchWork goes
\* on with the next call, or its promise is rejected.
CallSettled(p) ==
    /\ cli.pc = "await"
    /\ cli.stage \in {"zip", "s3", "lambda"}
    /\ pr[p].pc = "done"
    /\ IF pr[p].result = "resolved"
       THEN dispatchCall(p, cli, nextStage(cli.flags, stageIndex(cli.stage)))
       ELSE /\ cli' = onRejected(cli, pr[p].err)
            /\ UNCHANGED <<pr, reqs, collectOpts, s3log, cfn>>
    /\ UNCHANGED <<calls, tmpCount, dirs, zips, outFile, cache, builds, s3, opts, fn, walk, env>>

\* cloudformationPackage settles (main.ts:334-341): the template is written
\* out as JSON, or the promise of cloudformationPackageOutput is rejected.
CfnSettled(p) ==
    /\ cli.pc = "await"
    /\ cli.stage = "cfn"
    /\ cfn.pc = "done"
    /\ cli' = IF cfn.result = "resolved" THEN [cli EXCEPT !.pc = "write"]
              ELSE onRejected(cli, cfn.err)
    /\ UNCHANGED <<pr, calls, tmpCount, dirs, zips, outFile, cache, reqs, collectOpts, builds, s3, s3log, cfn, opts, fn, walk, env>>

\* The write of the template finishes (main.ts:337-341, 391-393).
WriteDone(p) ==
    /\ cli.pc = "write"
    /\ cli' = IF toStdout(cli.outputPath)
              THEN [cli EXCEPT !.pc = "resolved", !.stage = "", !.written = TRUE,
                               !.stdout = Append(@, stringify(cfn.template))]
              ELSE [cli EXCEPT !.pc = "resolved", !.stage = "", !.written = TRUE,
                               !.file = Append(@, stringify(cfn.template))]
    /\ UNCHANGED <<pr, calls, tmpCount, dirs, zips, outFile, cache, reqs, collectOpts, builds, s3, s3log, cfn, opts, fn, walk, env>>

\* The write fails; a file that could be opened is left with part of the
\* text.
WriteFail(p) ==
    /\ cli.pc = "write"
    /\ \E part \in {<<>>} \cup (IF toStdout(cli.outputPath) THEN {} ELSE {<<"partial">>}) :
         cli' = onRejected([cli EXCEPT !.file = @ \o part], "write")
    /\ UNCHANGED <<pr, calls, tmpCount, dirs, zips, outFile, cache, reqs, collectOpts, builds, s3, s3log, cfn, opts, fn, walk, env>>

\* Nothing is left to do: the process ends with exit code 0.
ProcessEnd ==
    /\ cli.pc \in {"returned", "resolved"}
    /\ \A d \in TmpIds : dirs[d].st # "removing"
    /\ cli' = [cli EXCEPT !.pc = "exited", !.exit = 0]
    /\ UNCHANGED <<pr, calls, tmpCount, dirs, zips, outFile, cache, reqs, collectOpts, builds, s3, s3log, cfn, opts, fn, walk, env>>

\* The options main passes on: the bucket (main.ts:359-360) and prefix flags,
\* and a new cache (main.ts:380-382).
CliOpts ==
    {[s3Bucket |-> defaultBucket, s3Prefix |-> <<>>, cache |-> CHOOSE c \in CacheIds : TRUE],
     [s3Bucket |-> bucketB, s3Prefix |-> <<"a">>, cache |-> CHOOSE c \in CacheIds : TRUE]}

InitCli ==
    /\ Started
    /\ outFile = NoFile
    /\ s3 \in BucketInits
    /\ opts \in CliOpts

\* One invocation from the command line.
NextCli ==
    \/ \E p \in Procs :
         \/ main(p)
         \/ CallSettled(p)
         \/ CfnSettled(p)
         \/ WriteDone(p)
         \/ WriteFail(p)
         \/ CfnReadDone(p)
         \/ CfnReadFail(p)
         \/ CfnPathExists(p)
         \/ CfnCallDone(p)
         \/ step(p)
         \/ s3Step(p)
         \/ lambdaStep(p)
    \/ \E d \in TmpIds : cli.pc # "exited" /\ RemoveDone(d)
    \/ ProcessEnd

SpecCli == InitCli /\ [][NextCli]_vars

\* The event loop runs every callback that is pending, and the process ends
\* when none is.
SpecCliLive == InitCli /\ [][NextCli]_vars /\ WF_vars(NextCli)

(***************************************************************************)
(* fsWalk (main.ts:69-82), one await at a time, with the callback of       *)
(* main.ts:125.                                                            *)
(***************************************************************************)

libJs == <<"lib", ".js">>

\* The files of the directories that are walked.
WalkFiles == {fooJs, libJs, libBarJs, libFooTs, depWJs}

\* The directories that are walked: every set of these files, written at one
\* time.
WalkTrees ==
    {treeWriteAll(emptyTree(t), [f \in F |-> src("x")], t) : F \in SUBSET WalkFiles, t \in Times}

\* A push of the entries in sorted order, not reversed.
pushEntries_sorted(fpath, entries) ==
    LET sorted == sortNames(entries)
    IN [i \in 1..Len(sorted) |-> childPath(fpath, sorted[i])]

\* main.ts:77-78: entries.sort().reverse() and paths = entries.map(join).
pushEntries(fpath, entries) ==
    LET sorted == reverse(sortNames(entries))
    IN [i \in 1..Len(sorted) |-> childPath(fpath, sorted[i])]

\* main.ts:71-73: the while loop runs to its next await: it returns when
\* todo is empty, else it pops an entry and calls cb for it.
walkLoop(w) ==
    IF Len(w.todo) = 0 THEN [w EXCEPT !.pc = "done"]
    ELSE [w EXCEPT !.todo = Front(w.todo), !.cur = Last(w.todo),
                   !.visited = Append(@, Last(w.todo)), !.running = TRUE, !.pc = "cb"]

\* An awaited operation of the walk rejects, and fsWalk with it.
walkFails(at) ==
    /\ walk.pc = at
    /\ walk' = [walk EXCEPT !.pc = "failed", !.running = FALSE]
    /\ UNCHANGED <<pr, calls, tmpCount, dirs, zips, outFile, cache, reqs, collectOpts, builds, s3, s3log, cfn, opts, fn, cli, env>>

\* fsWalk(topDir, cb) is called (main.ts:69-70): the top is stat'ed.
fsWalkCall ==
    /\ walk.pc = "idle"
    /\ \E tr \in WalkTrees : walk' = [WalkIdle EXCEPT !.pc = "stat", !.input = tr, !.tree = tr]
    /\ UNCHANGED <<pr, calls, tmpCount, dirs, zips, outFile, cache, reqs, collectOpts, builds, s3, s3log, cfn, opts, fn, cli, env>>

\* fse.stat(topDir) resolves (main.ts:70-73).
TopStatDone ==
    /\ walk.pc = "stat"
    /\ walk' = walkLoop([walk EXCEPT !.todo = <<Root>>])
    /\ UNCHANGED <<pr, calls, tmpCount, dirs, zips, outFile, cache, reqs, collectOpts, builds, s3, s3log, cfn, opts, fn, cli, env>>

TopStatFail == walkFails("stat")

\* The promise cb returned resolves (main.ts:73-75, 125): utimes has set the
\* time; a directory is read, after a file the loop goes on.
CbDone ==
    /\ walk.pc = "cb"
    /\ LET w == [walk EXCEPT !.tree = utimes(@, walk.cur, EpochTime),
                             !.running = FALSE, !.ended = @ + 1]
       IN walk' = IF walk.tree[walk.cur].kind = "dir"
                  THEN [w EXCEPT !.pc = "readdir"]
                  ELSE walkLoop(w)
    /\ UNCHANGED <<pr, calls, tmpCount, dirs, zips, outFile, cache, reqs, collectOpts, builds, s3, s3log, cfn, opts, fn, cli, env>>

CbFail == walkFails("cb")

\* fse.readdir resolves (main.ts:75-79): the entries are sorted and reversed
\* and every path is stat'ed.
ReaddirDone ==
    /\ walk.pc = "readdir"
    /\ walk' = [walk EXCEPT !.paths = pushEntries(walk.cur, readdir(walk.tree, walk.cur)),
                            !.pc = "stats"]
    /\ UNCHANGED <<pr, calls, tmpCount, dirs, zips, outFile, cache, reqs, collectOpts, builds, s3, s3log, cfn, opts, fn, cli, env>>

ReaddirFail == walkFails("readdir")

\* Promise.all of the stats resolves (main.ts:79-80, 71-73): the paths are
\* pushed and the loop goes on.
StatsDone ==
    /\ walk.pc = "stats"
    /\ walk' = walkLoop([walk EXCEPT !.todo = @ \o walk.paths, !.paths = <<>>])
    /\ UNCHANGED <<pr, calls, tmpCount, dirs, zips, outFile, cache, reqs, collectOpts, builds, s3, s3log, cfn, opts, fn, cli, env>>

StatsFail == walkFails("stats")

InitWalk ==
    /\ Started
    /\ outFile = NoFile
    /\ s3 = [b \in BucketNames |-> [st |-> "missing", objects |-> {}]]
    /\ opts = NoOpts

\* One call of fsWalk.
NextWalk ==
    \/ fsWalkCall
    \/ TopStatDone
    \/ TopStatFail
    \/ CbDone
    \/ CbFail
    \/ ReaddirDone
    \/ ReaddirFail
    \/ StatsDone
    \/ StatsFail

SpecWalk == InitWalk /\ [][NextWalk]_vars

(***************************************************************************)
(* A process that makes one top-level call: packageZipLocal,               *)
(* cloudformationPackage or fsWalk, with every awaited operation           *)
(* eventually succeeding or failing.                                       *)
(***************************************************************************)

\* The call that starts the session.
topLevelCall(p) ==
    \/ walk.pc = "idle" /\ packageZipLocalOnce(p)
    \/ walk.pc = "idle" /\ cloudformationPackage(p)
    \/ calls = 0 /\ cfn.pc = "idle" /\ fsWalkCall

\* An awaited operation calls back.
awaited ==
    \/ \E p \in Procs :
         \/ step(p)
         \/ s3Step(p)
         \/ CfnReadDone(p)
         \/ CfnReadFail(p)
         \/ CfnPathExists(p)
         \/ CfnCallDone(p)
    \/ \E d \in TmpIds : RemoveDone(d)
    \/ TopStatDone
    \/ TopStatFail
    \/ CbDone
    \/ CbFail
    \/ ReaddirDone
    \/ ReaddirFail
    \/ StatsDone
    \/ StatsFail

NextTerminates ==
    \/ \E p \in Procs : topLevelCall(p)
    \/ awaited

SpecTerminates == InitCfn /\ [][NextTerminates]_vars /\ WF_vars(awaited)

(***************************************************************************)
(* Calls that pass options to the collector: browserifyArgs, tsconfig and  *)
(* nodePath (main.ts:24-27, 95-109, 141-144).                              *)
(***************************************************************************)

\* The options objects of these sessions.
CollectOptions ==
    {[browserifyArgs |-> defined(<<"--im">>), tsconfig |-> defined(<<"tsconfig.json">>),
      nodePath |-> undefined],
     [browserifyArgs |-> undefined, tsconfig |-> undefined, nodePath |-> defined(<<".">>)],
     [browserifyArgs |-> defined(<<"--im">>), tsconfig |-> undefined,
      nodePath |-> defined(<<"lib">>)]}

\* The values of NODE_PATH the process may start with.
NodePaths == {undefined, defined(<<"/n">>)}

InitOptionsWith(ps) ==
    /\ ProcessWith(ps)
    /\ env \in NodePaths
    /\ outFile = NoFile
    /\ s3 = [b \in BucketNames |-> [st |-> "missing", objects |-> {}]]

\* A caller starts packageZipLocal (main.ts:151-154) with one of its options
\* objects, and with the cache of the session if there is one.
startWith(p) ==
    /\ pr[p].pc \in {"idle", "done"}
    /\ calls < MaxCalls
    /\ calls' = calls + 1
    /\ \E startPath \in OptionPaths, o \in OptIds :
         makeTmpZipFile(p, newCallWith("local", startPath, opts.cache, o))
    /\ UNCHANGED <<tmpCount, dirs, zips, outFile, cache, builds, s3, s3log, cfn, opts, fn, cli, walk, env>>

\* The calls are made one after the other.
packageZipLocalWith(p) == quiet /\ startWith(p)

\* The steps of a packageZipLocal call for an entry at top level: no stub
\* is written.
topLevelStep(p) ==
         \/ TmpDirDone(p)
         \/ CollectDone(p)
         \/ CollectFail(p)
         \/ WalkDone(p)
         \/ WalkFail(p)
         \/ TmpFileDone(p)
         \/ RemoveZipDone(p)
         \/ ZipDone(p)
         \/ ZipFail(p)
         \/ ZipError(p)
         \/ LateExit(p)
         \/ CopyDone(p)
         \/ CopyFail(p)

\* The caller has any two of the options objects, and may have a cache.
InitOptions ==
    /\ InitOptionsWith(Procs)
    /\ collectOpts \in [OptIds -> CollectOptions]
    /\ opts \in {NoOpts, [NoOpts EXCEPT !.cache = sharedCache]}

NextOptions ==
    \/ \E p \in Procs : packageZipLocalWith(p) \/ topLevelStep(p)
    \/ \E d \in TmpIds : RemoveDone(d)

SpecOptions == InitOptions /\ [][NextOptions]_vars

\* The callers do not wait for each other.
\* The options objects of the callers differ in nodePath; the callers may
\* share a cache.
InitOptionsConcurrent ==
    /\ InitOptionsWith(Callers)
    /\ collectOpts \in {c \in [OptIds -> CollectOptions] :
                          /\ \A o \in OptIds : c[o].nodePath.def
                          /\ c["o1"].nodePath.v = <<".">>
                          /\ c["o2"].nodePath.v = <<"lib">>}
    /\ opts \in {NoOpts, [NoOpts EXCEPT !.cache = sharedCache]}

\* Each caller makes one call, whatever the other caller is doing.
packageZipLocalWithConcurrent(p) == pr[p].pc = "idle" /\ startWith(p)

NextOptionsConcurrent ==
    \/ \E p \in Callers : packageZipLocalWithConcurrent(p) \/ topLevelStep(p)
    \/ \E d \in TmpIds : RemoveDone(d)

SpecOptionsConcurrent == InitOptionsConcurrent /\ [][NextOptionsConcurrent]_vars

(***************************************************************************)
(* Claims.                                                                 *)
(***************************************************************************)

\* The archive path stored by the first successful build of startPath with cache c.
firstStored(c, startPath) ==
    LET B == {b \in builds : b.cacheId = c /\ b.startPath = startPath} IN
    IF B = {} THEN 0
    ELSE (CHOOSE b \in B : \A o \in B : b.seq <= o.seq).zipPath

\* The call of p has got past the creation of its staging directory.
pastTmpDir(p) == pr[p].pc \notin {"idle", "tmpdir"}

onlyArchivesSurvive ==
    /\ \A z \in TmpIds :
         zips[z].st # "none" =>
           \/ \E b \in builds : b.zipPath = z /\ zips[z] = [st |-> "file", bytes |-> b.bytes]
           \/ \E p \in Procs : pr[p].pc = "rmzip" /\ pr[p].zipPath = z
    /\ \A c \in CacheIds, e \in AllPaths :
         cache[c][e] # 0 => \E b \in builds : b.zipPath = cache[c][e] /\ zips[cache[c][e]].st = "file"

C3_NoStagingAtCompletion ==
    \A p \in Procs :
      (pr[p].pc = "done" /\ pr[p].stageDir # 0) => dirs[pr[p].stageDir].st = "removed"

\* The steps of the pipeline that can fail.
PipelineSteps == {"collect", "stub", "walk", "zip"}

\* C4: when a pipeline step of packageZipLocal fails, the call rejects with
\* that error and the file at outputZipPath is as it was before the call; the
\* file at outputZipPath is written only once the pipeline has returned the
\* path of a completely built archive.
C4_OutputUntouchedOnFailure ==
    \A p \in Procs :
      LET r == pr[p] IN
      /\ (r.sink = "local" /\ r.thrown \in PipelineSteps) =>
            /\ r.pc = "done" /\ r.result = "rejected" /\ r.err = r.thrown
            /\ outFile = r.out0
      /\ (r.sink = "local" /\ outFile # r.out0) =>
            /\ r.tmpPath # 0
            /\ \E b \in builds : b.zipPath = r.tmpPath /\ zips[r.tmpPath].bytes = b.bytes

\* zip failed while a file was present at outputZipPath.
C4_Witness ==
    \E p \in Procs :
      /\ pr[p].sink = "local" /\ pr[p].pc = "done" /\ pr[p].thrown = "zip"
      /\ pr[p].out0 = oldFile /\ outFile = oldFile

\* C5: two cache-miss runs with the same collector output (paths and
\* contents) and the same stub decision produce the same archive bytes,
\* whatever their staging directories and the timestamps the files were
\* written with, and so map to the same remote key.
C5_Deterministic ==
    \A b1, b2 \in builds :
      (b1.collected = b2.collected /\ b1.stub = b2.stub) =>
        /\ b1.bytes = b2.bytes
        /\ \A x \in S3Prefixes : s3Key(x, b1.bytes) = s3Key(x, b2.bytes)

\* Two builds of the same files in different staging directories.
C5_Witness ==
    \E b1, b2 \in builds :
      /\ b1.stageDir # b2.stageDir
      /\ b1.collected = b2.collected /\ b1.stub = b2.stub /\ b1.stub # <<>>
      /\ b1.bytes = b2.bytes

\* The paths of the files in an archive.
archiveFiles(bytes) == {e.path : e \in {x \in bytes : x.kind = "file"}}

\* The contents of the file at path f in an archive.
archiveContent(bytes, f) == (CHOOSE e \in bytes : e.path = f).content

\* C6: when the entry path has a non-trivial directory component, the archive
\* holds exactly one file in addition to the collector's output: a top-level
\* file named <entry base name without extension>.js.
C6_OneAdditionalFile ==
    \A b \in builds :
      pathDirname(b.startPath) # <<".">> =>
        LET extra == archiveFiles(b.bytes) \ DOMAIN b.collected IN
        /\ Cardinality(extra) = 1
        /\ extra = {pathParse(b.startPath).name \o <<".js">>}

\* C7: the stub requires the nested entry by "./" followed by the entry path
\* as given, its extension included.
C7_StubRequiresEntryAsGiven ==
    \A b \in builds :
      pathDirname(b.startPath) # <<".">> =>
        archiveContent(b.bytes, pathParse(b.startPath).name \o <<".js">>)
          = <<"module.exports = require(\"", ".", Slash>> \o b.startPath \o <<"\");\n">>

\* The packageZipS3 calls that completed so far, in order.
s3Calls == s3Completed(CHOOSE p \in Procs : TRUE)

\* Two completed calls produced the same archive bytes for the same bucket
\* and prefix.
sameUpload(a, b) ==
    /\ a.hasData /\ b.hasData
    /\ a.zipData = b.zipData /\ a.bucket = b.bucket /\ a.prefix = b.prefix

\* C8 as stated: among sequential packageZipS3 calls that produce the same
\* archive bytes for the same bucket and prefix, the first performs the
\* upload, and every later call finds the existing object, performs no
\* upload and returns the same {bucket, key} as the first.
C8_Original ==
    \A i, j \in 1..Len(s3Calls) :
      (i < j /\ sameUpload(s3Calls[i], s3Calls[j])
             /\ \A k \in 1..(i - 1) : ~sameUpload(s3Calls[k], s3Calls[i])) =>
        /\ s3Calls[i].upload = "ok"
        /\ s3Calls[j].exists /\ s3Calls[j].upload = "no"
        /\ s3Calls[j].result = "resolved" /\ s3Calls[j].loc = s3Calls[i].loc

\* C8 as amended: among sequential packageZipS3 calls that produce the same
\* archive bytes for the same bucket and prefix, in a bucket that did not
\* hold the object, the upload succeeds at most once, in the first call that
\* resolves; a call that is rejected stores nothing, and every call after
\* the first that resolved starts no upload and, when its listing succeeds,
\* finds the object and returns the same {bucket, key}.
C8_UploadOnce ==
    \A j \in 1..Len(s3Calls) :
      LET earlier == {i \in 1..(j - 1) :
                        sameUpload(s3Calls[i], s3Calls[j]) /\ s3Calls[i].result = "resolved"}
      IN
      s3Calls[j].hasData =>
        /\ (s3Calls[j].result = "rejected" => s3Calls[j].upload # "ok")
        /\ (earlier = {} /\ s3Calls[j].result = "resolved") =>
              s3Calls[j].upload = "ok" /\ ~s3Calls[j].exists
        /\ \A i \in earlier :
              /\ s3Calls[j].upload = "no"
              /\ s3Calls[j].result = "resolved" =>
                    s3Calls[j].exists /\ s3Calls[j].loc = s3Calls[i].loc

\* A call uploaded the archive and a later call with the same bytes, bucket
\* and prefix skipped the upload.
C8_Witness ==
    \E i, j \in 1..Len(s3Calls) :
      /\ i < j /\ sameUpload(s3Calls[i], s3Calls[j])
      /\ s3Calls[i].upload = "ok"
      /\ s3Calls[j].result = "resolved" /\ s3Calls[j].exists /\ s3Calls[j].upload = "no"

\* C9: the location packageZipS3 computes and returns is a function of the
\* archive bytes and the options: the bucket is options.s3Bucket, or
\* "aws-lambda-upload" when none is given; the key is the prefix, the md5 hex
\* of the archive and ".zip", where the prefix is empty for an empty
\* s3Prefix, s3Prefix when it ends in "/", and s3Prefix + "/" otherwise, so
\* that a given prefix is separated from the digest by exactly one "/".
C9_LocationFromBytesAndOptions ==
    \A p \in Procs :
      LET r == pr[p]
          x == opts.s3Prefix
          digest == md5Hex(zips[r.tmpPath].bytes)
      IN
      (r.sink = "s3" /\ (r.hasData \/ r.result = "resolved")) =>
        /\ r.hasData
        /\ r.loc.bucket = (IF opts.s3Bucket = <<>> THEN <<"aws-lambda-upload">> ELSE opts.s3Bucket)
        /\ r.loc.key = (IF x = <<>> THEN <<>>
                        ELSE IF x[Len(x)] = Slash THEN x
                        ELSE x \o <<Slash>>) \o digest \o <<".zip">>
        /\ x # <<>> => r.loc.key = stripTrailingSlashes(x) \o <<Slash>> \o digest \o <<".zip">>
        /\ \A c \in 1..Len(s3log) :
             (s3log[c].hasData /\ s3log[c].zipData = r.zipData) => s3log[c].loc = r.loc

\* A call returned a location under a prefix given without its separator.
C9_Witness ==
    \E p \in Procs :
      /\ pr[p].sink = "s3" /\ pr[p].pc = "done" /\ pr[p].result = "resolved"
      /\ opts.s3Prefix = <<"a">> /\ opts.s3Bucket = <<>>
      /\ pr[p].loc.key = <<"a", Slash>> \o md5Hex(pr[p].zipData) \o <<".zip">>

\* The resolved file of the rewritten property of resource i of the input.
inputPath(i, prop) ==
    pathResolve(pathDirname(cfn.templatePath), cfn.input.Resources[i].Properties[prop].v)

\* The location is the one packageZipS3 returned for resource i and its
\* file, where the archive built from that file is stored.
returnedFor(i, path, loc) ==
    /\ \E n \in 1..Len(cfn.locs) : cfn.locs[n] = [i |-> i, path |-> path, loc |-> loc]
    /\ \E o \in s3[loc.bucket].objects, b \in builds :
         o.key = loc.key /\ b.startPath = path /\ b.bytes = o.body

\* Two template values are the same value.
sameValue(a, b) == a.t = b.t /\ a.v = b.v

\* C10: cloudformationPackage rewrites only the Code property of resources
\* of type AWS::Lambda::Function, to {S3Bucket, S3Key}, and the CodeUri
\* property of resources of type AWS::Serverless::Function, to
\* s3://<bucket>/<key>, with the location packageZipS3 returned for the file
\* of that resource; every other resource, property and top-level key of the
\* template is as it was read.
C10_RewritesOnlyCode ==
    (cfn.pc \in {"exists", "call"} \/ (cfn.pc = "done" /\ cfn.err \notin {"read", "TypeError"})) =>
      LET in == cfn.input
          out == cfn.template
      IN
      /\ DOMAIN out = DOMAIN in
      /\ \A k \in DOMAIN in \ {"Resources"} : out[k] = in[k]
      /\ Len(out.Resources) = Len(in.Resources)
      /\ \A i \in 1..Len(in.Resources) :
           LET a == in.Resources[i]
               b == out.Resources[i]
           IN
           /\ DOMAIN b = DOMAIN a
           /\ b.Key = a.Key /\ b.Type = a.Type
           /\ "Properties" \in DOMAIN a =>
                /\ DOMAIN b.Properties = DOMAIN a.Properties
                /\ \A prop \in DOMAIN a.Properties :
                     ~sameValue(b.Properties[prop], a.Properties[prop]) =>
                       \/ /\ a.Type = "AWS::Lambda::Function" /\ prop = "Code"
                          /\ \E loc \in {cfn.locs[n].loc : n \in 1..Len(cfn.locs)} :
                               /\ returnedFor(i, inputPath(i, prop), loc)
                               /\ sameValue(b.Properties[prop],
                                    [t |-> "object", v |-> [S3Bucket |-> loc.bucket, S3Key |-> loc.key]])
                       \/ /\ a.Type = "AWS::Serverless::Function" /\ prop = "CodeUri"
                          /\ \E loc \in {cfn.locs[n].loc : n \in 1..Len(cfn.locs)} :
                               /\ returnedFor(i, inputPath(i, prop), loc)
                               /\ sameValue(b.Properties[prop],
                                    [t |-> "string",
                                     v |-> <<"s3:", Slash, Slash>> \o loc.bucket \o <<Slash>> \o loc.key])

\* The template with both kinds of function and a resource of another type
\* was returned with both functions rewritten.
C10_Witness ==
    /\ cfn.pc = "done" /\ cfn.result = "resolved" /\ cfn.input = TemplateSameFile
    /\ ~sameValue(cfn.template.Resources[1].Properties.CodeUri, cfn.input.Resources[1].Properties.CodeUri)
    /\ ~sameValue(cfn.template.Resources[2].Properties.Code, cfn.input.Resources[2].Properties.Code)
    /\ cfn.template.Resources[3] = cfn.input.Resources[3]

\* The resource is of one of the two recognized types.
recognized(res) == res.Type \in {"AWS::Lambda::Function", "AWS::Serverless::Function"}

\* The property that is designated for the type of the resource.
designated(res) == IF res.Type = "AWS::Lambda::Function" THEN "Code" ELSE "CodeUri"

\* The resource, as read, has no Properties, or its designated property is
\* not a string, or starts with s3://, http:// or https://, or names a file
\* that does not exist beside the template.
skipped(res) ==
    \/ "Properties" \notin DOMAIN res
    \/ designated(res) \notin DOMAIN res.Properties
    \/ res.Properties[designated(res)].t # "string"
    \/ \E scheme \in {"s3:", "http:", "https:"} :
         startsWith(res.Properties[designated(res)].v, <<scheme, "/", "/">>)
    \/ pathResolve(pathDirname(cfn.templatePath), res.Properties[designated(res)].v) \notin SourceFiles

\* The number of packageZipS3 calls started so far.
s3Started ==
    Len(s3Calls) + Cardinality({p \in Procs : pr[p].sink = "s3" /\ pr[p].pc \notin {"idle", "done"}})

\* Resource i is in the returned template as it was read.
untouched(i) ==
    LET a == cfn.input.Resources[i]
        b == cfn.template.Resources[i]
    IN
    /\ DOMAIN b = DOMAIN a
    /\ b.Key = a.Key /\ b.Type = a.Type
    /\ "Properties" \in DOMAIN a =>
         /\ DOMAIN b.Properties = DOMAIN a.Properties
         /\ \A prop \in DOMAIN a.Properties : sameValue(b.Properties[prop], a.Properties[prop])

\* C11: in cloudformationPackage a recognized resource is skipped when it has
\* no Properties, when the designated property is not a string, when the
\* value starts with s3://, http:// or https://, or when the path resolved
\* against the template's directory does not exist: its property is left
\* unchanged, no packageZipS3 call (no pipeline, no remote operation) is made
\* for it, the transform does not fail because of it, and the resources that
\* are not skipped are still processed.
C11_SkippedResources ==
    (cfn.pc \in {"exists", "call"} \/ (cfn.pc = "done" /\ cfn.err \notin {"read", "TypeError"})) =>
      LET R == cfn.input.Resources
          skip == {i \in 1..Len(R) : recognized(R[i]) /\ skipped(R[i])}
          work == {i \in 1..Len(R) : recognized(R[i]) /\ ~skipped(R[i])}
          reached == {i \in work : i < cfn.i \/ (i = cfn.i /\ cfn.pc # "exists")}
      IN
      /\ \A i \in skip : untouched(i)
      /\ s3Started = Cardinality(reached)
      /\ \A n \in 1..Len(cfn.locs) : cfn.locs[n].i \in work
      /\ \A p \in Procs :
           pr[p].pc \notin {"idle", "done"} => cfn.pc = "call" /\ cfn.i \in work
      /\ (cfn.pc = "done" /\ cfn.result = "resolved") =>
           {cfn.locs[n].i : n \in 1..Len(cfn.locs)} = work
      /\ (cfn.pc = "done" /\ cfn.result = "rejected") =>
           /\ cfn.i \in work
           /\ \E p \in Procs : pr[p].result = "rejected" /\ pr[p].err = cfn.err

\* The template with an object, an URL, no properties and a missing file was
\* returned with those four resources as read and the fifth rewritten after
\* its one packageZipS3 call.
C11_Witness ==
    /\ cfn.pc = "done" /\ cfn.result = "resolved" /\ cfn.input = TemplateSkips
    /\ \A i \in 1..4 : untouched(i)
    /\ ~untouched(5)
    /\ s3Started = 1
    /\ Len(cfn.locs) = 1 /\ cfn.locs[1].i = 5

\* The calls m < n of the history are for the same file, and m is the first
\* call for it.
firstAndLater(m, n) ==
    /\ m < n
    /\ s3Calls[m].startPath = s3Calls[n].startPath
    /\ \A k \in 1..(m - 1) : s3Calls[k].startPath # s3Calls[m].startPath

\* The steps of a call between the cache lookup and the returned archive path.
BuildSteps == {"tmpdir", "collect", "stub", "walk", "tmpfile", "rmzip", "zip"}

C13_PipelineErrorsPropagate ==
    /\ \A p \in Procs :
         LET r == pr[p] IN
         r.thrown # "" =>
           /\ r.thrown \in {"collect", "stub", "walk", "zip"}
           /\ r.pc = "done" /\ r.result = "rejected" /\ r.err = r.thrown
           /\ r.thrown # "zip" => r.zipPath = 0 /\ r.nZip = 0
           /\ r.thrown = "zip" => zips[r.zipPath].st = "none"
           /\ r.tmpPath = 0
           /\ r.cacheId # NoCache => cache[r.cacheId][r.startPath] = 0
           /\ ~r.hasData /\ r.loc = NoLoc /\ ~r.exists /\ r.upload = "no"
           /\ r.sink = "local" => outFile = r.out0
           /\ r.sink = "lambda" => fn = NoFn
           /\ r.sink = "s3" =>
                \A b \in BucketNames : \A o \in s3[b].objects :
                  \E n \in 1..Len(s3log) : s3log[n].upload = "ok" /\ s3log[n].loc.key = o.key
           /\ cfn.pc # "idle" =>
                /\ cfn.pc = "call" \/ (cfn.pc = "done" /\ cfn.result = "rejected" /\ cfn.err = r.thrown)
                /\ untouched(cfn.i)
                /\ \A n \in 1..Len(cfn.locs) : cfn.locs[n].i < cfn.i
           /\ cli.pc \in {"await", "exited"}
           /\ cli.pc = "exited" => cli.exit = 1 /\ cli.reported = r.thrown
    /\ (cfn.pc = "done" /\ cfn.result = "resolved") =>
         \A n \in 1..Len(s3Calls) : s3Calls[n].result = "resolved"

\* The zip of the second file of a template with two files failed: the
\* transform was rejected with that error after the first resource had been
\* rewritten, and the second was left as read.
C13_Witness ==
    /\ cfn.pc = "done" /\ cfn.result = "rejected" /\ cfn.err = "zip"
    /\ cfn.input = TemplateTwoFiles /\ cfn.i = 2
    /\ Len(cfn.locs) = 1 /\ ~untouched(1) /\ untouched(2)
    /\ \E p \in Procs : pr[p].thrown = "zip" /\ pr[p].err = "zip"

\* The sink operations the invocation has executed so far: the copy to the
\* output path, the upload by packageZipS3 called from dispatchWork, the
\* update of the function, and the transform of a template.
sinksRun ==
    {m \in Modes :
       \/ m = "zip" /\ outFile # NoFile
       \/ m = "s3" /\ cfn.pc = "idle" /\ \E b \in BucketNames : s3[b].objects # {}
       \/ m = "lambda" /\ fn.updates > 0
       \/ m = "cfn" /\ cfn.pc # "idle"}

\* C14: a command line invocation performs exactly one primary mode among
\* --lambda, --zip, --s3 and --cfn: for every combination of flags, at most
\* one of the four sink operations is executed.
C14_OneSinkPerInvocation ==
    Cardinality(sinksRun) <= 1

\* An operation of the invocation has failed: a call dispatchWork made, the
\* transform, or the write of the template.
workFailed ==
    \/ \E p \in Procs : pr[p].result = "rejected"
    \/ cfn.result = "rejected"
    \/ cli.reported = "write"

\* Everything the flags selected has been done.
workDone ==
    IF "cfn" \in cli.flags
    THEN cfn.pc = "done" /\ cfn.result = "resolved" /\ cli.written
    ELSE /\ "zip" \in cli.flags => outFile.st = "file" /\ \E b \in builds : b.bytes = outFile.bytes
         /\ "s3" \in cli.flags =>
              \E b \in builds, o \in s3[s3BucketOf(opts.s3Bucket)].objects : o.body = b.bytes
         /\ "lambda" \in cli.flags =>
              fn.updates = 1 /\ \E b \in builds : b.bytes = fn.code.bytes

\* The exit code is 0 only after all the selected work succeeded, and 1, with
\* the error reported, after an operation failed; nothing runs after a
\* failure but the handler of main.
exitCodeRight ==
    /\ cli.exit \in {-1, 0, 1}
    /\ cli.pc = "exited" <=> cli.exit # -1
    /\ (cli.nargs = 1 /\ cli.flags # {} /\ cli.pc \in {"resolved", "exited"} /\ cli.exit # 1) =>
         ~workFailed /\ workDone /\ cli.reported = ""
    /\ workFailed =>
         /\ cli.pc \in {"await", "exited"}
         /\ cli.pc = "exited" => cli.exit = 1
    /\ cli.exit = 1 =>
         /\ workFailed
         /\ cli.reported # ""
         /\ \/ cli.reported = "write" /\ cli.stage = "cfn" /\ cfn.result = "resolved"
            \/ cli.stage = "cfn" /\ cli.reported = cfn.err
            \/ cli.stage # "cfn" /\ \E p \in Procs : cli.reported = pr[p].err

\* C15: the command line terminates, with exit code 0 when the selected work
\* succeeds, and with a non-zero exit code, after reporting the error
\* message, whenever a pipeline stage or a sink operation fails.
C15_ExitCode ==
    /\ []exitCodeRight
    /\ <>(cli.pc = "exited")

\* With --zip and --lambda the copy succeeded and the update of the function
\* failed: the process reported that error and exited with code 1.
C15_Witness ==
    /\ cli.flags = {"zip", "lambda"} /\ cli.nargs = 1
    /\ outFile.st = "file" /\ fn.updates = 0
    /\ cli.pc = "exited" /\ cli.exit = 1 /\ cli.reported = "update"

\* C16: when packageZipLocal succeeds, the file at outputZipPath has exactly
\* the bytes of the archive that was built, or that the cache held, whether
\* or not a file existed there before, and the call returns outputZipPath
\* itself, on a cache miss and on a cache hit alike.
C16_OutputIsArchive ==
    \A p \in Procs :
      LET r == pr[p] IN
      (r.sink = "local" /\ r.pc = "done" /\ r.result = "resolved") =>
        /\ r.ret = <<"out", ".zip">>
        /\ outFile.st = "file"
        /\ outFile.bytes = zips[r.tmpPath].bytes
        /\ \E b \in builds :
             /\ b.startPath = r.startPath /\ b.zipPath = r.tmpPath
             /\ b.bytes = outFile.bytes
        /\ IF r.hadKey
           THEN r.nCollect = 0 /\ r.tmpPath = cache[r.cacheId][r.startPath]
           ELSE r.nCollect = 1 /\ r.tmpPath = r.zipPath

\* A call that found its entry in the cache resolved where an older archive
\* was at the output path.
C16_Witness ==
    \E p \in Procs :
      /\ pr[p].sink = "local" /\ pr[p].pc = "done" /\ pr[p].result = "resolved"
      /\ pr[p].hadKey /\ pr[p].out0 = oldFile
      /\ outFile.st = "file" /\ outFile # oldFile

\* The call made no build and no upload, and its bucket is as headBucket
\* found it.
noSideEffects(r, st) ==
    /\ r.nCreate = 0
    /\ s3[r.bucket].st = st
    /\ r.nStage = 0 /\ r.nCollect = 0 /\ r.nZip = 0 /\ r.tmpPath = 0
    /\ ~r.hasData /\ ~r.exists /\ r.upload = "no" /\ r.loc = NoLoc

\* The outcomes of the bucket check that do not involve createBucket.
headOutcomes(r) ==
    /\ r.head = "" => r.pc = "head" /\ r.nCreate = 0
    /\ r.head = "ok" => r.nCreate = 0 /\ s3[r.bucket].st = "ok" /\ r.err \notin {"cant-read", "head", "create"}
    /\ r.head = "Forbidden" =>
         /\ r.pc = "done" /\ r.result = "rejected"
         /\ r.msg = <<"Can't read s3://">> \o s3BucketOf(opts.s3Bucket)
                      \o <<": grant AWS permissions or change --s3-bucket">>
         /\ noSideEffects(r, "forbidden")
    /\ r.head = "other" =>
         /\ r.pc = "done" /\ r.result = "rejected" /\ r.err = "head" /\ r.msg = <<>>
         /\ \E st \in {"ok", "missing", "forbidden"} : noSideEffects(r, st)
    /\ r.head \in {"", "ok", "NotFound"} /\ r.thrown = "" => r.msg = <<>>

\* C17 as stated: the bucket check of packageZipS3 has exactly these
\* outcomes: the bucket exists and none is created; headBucket fails with
\* NotFound, the bucket is created exactly once and the call continues;
\* headBucket fails with Forbidden, the call fails with an error telling the
\* user to grant AWS permissions or change --s3-bucket, and no bucket is
\* created, no archive built and nothing uploaded; any other headBucket error
\* is rethrown unchanged with the same absence of side effects.
C17_Original ==
    \A p \in Procs :
      LET r == pr[p] IN
      r.sink = "s3" =>
        /\ headOutcomes(r)
        /\ r.head = "NotFound" =>
             /\ r.nCreate = 1
             /\ r.pc # "create" =>
                  s3[r.bucket].st = "ok" /\ r.err \notin {"cant-read", "head", "create"}

\* C17 as amended: as stated, except that on NotFound createBucket is
\* requested exactly once and the call continues when that request succeeds;
\* when it fails, the call is rejected with the error of createBucket, the
\* bucket is still missing, no archive is built and nothing is uploaded.
C17_BucketCheck ==
    \A p \in Procs :
      LET r == pr[p] IN
      r.sink = "s3" =>
        /\ headOutcomes(r)
        /\ r.head = "NotFound" =>
             /\ r.nCreate = 1
             /\ r.pc # "create" =>
                  \/ s3[r.bucket].st = "ok" /\ r.err \notin {"cant-read", "head", "create"}
                  \/ /\ r.pc = "done" /\ r.result = "rejected" /\ r.err = "create"
                     /\ s3[r.bucket].st = "missing"
                     /\ r.nStage = 0 /\ r.nCollect = 0 /\ r.nZip = 0 /\ r.tmpPath = 0
                     /\ ~r.hasData /\ ~r.exists /\ r.upload = "no" /\ r.loc = NoLoc

\* The second call of a session found the bucket the first call had created
\* and uploaded to, and created none.
C17_Witness ==
    \E p \in Procs :
      /\ pr[p].sink = "s3" /\ pr[p].pc = "done" /\ pr[p].result = "resolved"
      /\ pr[p].head = "ok" /\ pr[p].nCreate = 0
      /\ Len(s3log) = 1 /\ s3log[1].result = "resolved" /\ s3log[1].head = "NotFound"
      /\ s3log[1].bucket = pr[p].bucket

\* The state of the promise of spawn for each state of the command, and what
\* the build does with it.
spawnOutcome ==
    /\ \A p \in Procs :
         LET r == pr[p] IN
         /\ r.child = "none" <=> r.promise.st = "none"
         /\ r.child = "running" <=> r.promise.st = "pending"
         /\ r.promise.st = "resolved" <=> (r.child = "exited" /\ r.code = 0 /\ r.thrown = "")
         /\ (r.child = "exited" /\ r.code # 0 /\ r.thrown = "zip" /\ r.msg # spawnError) =>
              /\ r.promise.st = "rejected"
              /\ r.promise.msg = <<"Command failed with exit code ", ToString(r.code)>>
              /\ r.code \in {1, 2}
         /\ (r.child = "failed" \/ r.msg = spawnError) =>
              r.promise = [st |-> "rejected", msg |-> <<"spawn zip ENOENT">>]
         /\ r.promise.st = "rejected" =>
              /\ r.pc = "done" /\ r.result = "rejected" /\ r.thrown = "zip"
              /\ r.msg = r.promise.msg
              /\ r.nZip = 1 /\ r.nCollect = 1 /\ zips[r.zipPath].st = "none"
         /\ r.promise.st = "resolved" => r.nZip = 1 /\ zips[r.zipPath].st = "file"

\* C18: the promise of spawn settles exactly once: it resolves if and only
\* if the command exits with code 0, rejects with the error "Command failed
\* with exit code <code>" when it exits with another code, and rejects with
\* the spawn error when the command cannot be started; a zip failure
\* therefore fails the build, which is not retried.
C18_SpawnSettlesOnce ==
    /\ []spawnOutcome
    /\ [][\A p \in Procs :
            pr[p].promise.st \in {"resolved", "rejected"} =>
              \/ pr'[p].promise = pr[p].promise
              \/ pr'[p].pc # "done" /\ pr'[p].promise.st = "none"]_vars

\* zip could not be started, and the child emitted "exit" after "error": the
\* promise is still rejected with the spawn error and the build has failed.
C18_Witness ==
    \E p \in Procs :
      /\ pr[p].child = "exited" /\ pr[p].code = 0
      /\ pr[p].promise = [st |-> "rejected", msg |-> spawnError]
      /\ pr[p].pc = "done" /\ pr[p].result = "rejected" /\ pr[p].msg = spawnError

\* Path a is the directory b is in, or a directory above it.
isAbove(a, b) == a # b /\ (a = Root \/ startsWith(b, a \o <<Slash>>))

\* The position of path q in the sequence of callbacks.
visitIndex(q) == CHOOSE i \in 1..Len(walk.visited) : walk.visited[i] = q

\* cb is called at most once for an entry, for a directory before every entry
\* inside it, and the callback of an entry has completed before the callback
\* of the next one starts; a walk that returns has called cb for the top and
\* for every entry beneath it, which is the walk the pipeline runs.
walkedOnceInTurn ==
    /\ \A i, j \in 1..Len(walk.visited) : walk.visited[i] = walk.visited[j] => i = j
    /\ \A i \in 1..Len(walk.visited) : walk.visited[i] \in DOMAIN walk.input
    /\ \A i, j \in 1..Len(walk.visited) :
         isAbove(walk.visited[i], walk.visited[j]) => i < j
    /\ \A i \in 1..Len(walk.visited) : \A d \in DOMAIN walk.input :
         isAbove(d, walk.visited[i]) => \E j \in 1..(i - 1) : walk.visited[j] = d
    /\ walk.running <=> walk.pc = "cb"
    /\ walk.ended <= Len(walk.visited) /\ Len(walk.visited) <= walk.ended + 1
    /\ walk.running => Len(walk.visited) = walk.ended + 1
    /\ walk.pc \notin {"cb", "failed"} => Len(walk.visited) = walk.ended
    /\ \A q \in DOMAIN walk.input :
         walk.tree[q].mtime = (IF \E i \in 1..walk.ended : walk.visited[i] = q
                               THEN 0 ELSE walk.input[q].mtime)
    /\ walk.pc = "done" =>
         /\ {walk.visited[i] : i \in 1..Len(walk.visited)} = DOMAIN walk.input
         /\ walk.visited[1] = Root
         /\ walk.visited = fsWalk(walk.input, Root)
         /\ walk.tree = normalizeTimes(walk.input)

sameRequest(p, q) ==
    /\ p # q
    /\ pr[p].pc # "idle" /\ pr[q].pc # "idle"
    /\ pr[p].cacheId # NoCache /\ pr[p].cacheId = pr[q].cacheId
    /\ pr[p].startPath = pr[q].startPath

\* C20: when packaging requests for the same entry path are issued
\* concurrently with a shared cache, at most one build for that entry is
\* ever in flight: the collector is invoked once and all callers receive the
\* same archive path.
C20_ConcurrentRequestsCoalesce ==
    \A p, q \in Callers :
      sameRequest(p, q) =>
        /\ ~(building(pr[p]) /\ building(pr[q]))
        /\ pr[p].nCollect + pr[q].nCollect <= 1
        /\ (pr[p].tmpPath # 0 /\ pr[q].tmpPath # 0) => pr[p].tmpPath = pr[q].tmpPath

\* A call of packageZipS3 is in flight: its pipeline or its upload.
inFlight(p) == pr[p].pc \notin {"idle", "done"}

\* The resources whose processing has finished with a replaced property.
processed == {cfn.locs[k].i : k \in 1..Len(cfn.locs)}

\* C21: cloudformationPackage processes the resources one at a time in the
\* order of the Resources keys: the pipeline and upload for a resource do
\* not start until the processing of the previous resource has finished, so
\* at no time are two builds or two uploads of the same run in flight.
C21_OneResourceAtATime ==
    /\ Cardinality({p \in Callers : inFlight(p)}) <= 1
    /\ \A p \in Callers :
         inFlight(p) =>
           /\ cfn.pc = "call" /\ cfn.caller = p
           /\ pr[p].startPath = cfnPathOf(cfn.templatePath, cfn.template.Resources[cfn.i])
    /\ \A k, m \in 1..Len(cfn.locs) : k < m => cfn.locs[k].i < cfn.locs[m].i
    /\ cfn.pc \in {"exists", "call"} => \A j \in processed : j < cfn.i
    /\ \A p \in Callers :
         inFlight(p) =>
           \A j \in 1..(cfn.i - 1) :
             LET res == cfn.input.Resources[j] IN
             (recognized(res) /\ ~skipped(res)) => j \in processed

\* The pipeline of a second resource, for another file, is in flight after
\* the first resource was processed.
C21_Witness ==
    /\ cfn.pc = "call"
    /\ Len(cfn.locs) = 1
    /\ \E p \in Callers :
         /\ building(pr[p])
         /\ pr[p].startPath # cfn.locs[1].path
         /\ cfn.i > cfn.locs[1].i

\* Every entry of a tree has modification time 0.
allEpoch(tree) == \A q \in DOMAIN tree : tree[q].mtime = EpochTime

\* What a step of the pipeline has done when it has finished and the next
\* one starts: a is the call before the step and b after it.
stepDone(a, b) ==
    LET tree == dirs[a.stageDir].tree
        tree2 == dirs'[b.stageDir].tree
    IN
    CASE a.pc = "tmpdir" ->
           /\ b.pc = "collect"
           /\ dirs[b.stageDir].st = "none" /\ dirs'[b.stageDir].st = "present"
           /\ DOMAIN tree2 = {Root}
      [] a.pc = "collect" ->
           /\ b.pc = (IF needsStub(a.startPath) THEN "stub" ELSE "walk")
           /\ DOMAIN tree = {Root}
           /\ filesOf(tree2) = b.collected
           /\ ~allEpoch(tree2)
      [] a.pc = "stub" ->
           /\ b.pc = "walk"
           /\ filesOf(tree) = a.collected
           /\ stubName(a.startPath) \in DOMAIN filesOf(tree2)
           /\ tree2[stubName(a.startPath)].content = stubContent(a.startPath)
           /\ tree2[stubName(a.startPath)].mtime # EpochTime
      [] a.pc = "walk" ->
           /\ b.pc = "tmpfile"
           /\ needsStub(a.startPath) => stubName(a.startPath) \in DOMAIN filesOf(tree)
           /\ ~allEpoch(tree)
           /\ allEpoch(tree2)
           /\ zips' = zips
      [] a.pc = "tmpfile" ->
           /\ b.pc = "rmzip"
           /\ allEpoch(tree) /\ tree2 = tree
      [] a.pc = "rmzip" ->
           /\ b.pc = "zip"
           /\ allEpoch(tree) /\ tree2 = tree
           /\ zips'[b.zipPath].st = "none"
      [] a.pc = "zip" ->
           /\ b.pc \in {"copy", "readfile"}
           /\ allEpoch(tree)
           /\ zips[a.zipPath].st = "none"
           /\ zips'[a.zipPath] = [st |-> "file", bytes |-> zipBytes(tree)]
           /\ a.cacheId # NoCache =>
                /\ cache[a.cacheId][a.startPath] = 0
                /\ cache'[a.cacheId][a.startPath] = a.zipPath

\* C22: within one cache-miss pipeline run the steps occur strictly in the
\* order: create staging directory, Dependency Collector, stub synthesis,
\* timestamp normalization, archive build, cache store; none starts before
\* the previous one has finished, the stub is written before normalization
\* so it too receives the constant timestamp, and the cache is written only
\* after the archive exists.
C22_StepsInOrder ==
    [][\A p \in Procs :
         /\ (building(pr[p]) /\ pr'[p].pc # pr[p].pc) =>
              \/ stepDone(pr[p], pr'[p])
              \/ /\ pr'[p].pc = "done" /\ pr'[p].result = "rejected"
                 /\ cache' = cache
         /\ (building(pr[p]) /\ pr'[p].pc = pr[p].pc) =>
              /\ cache' = cache
              /\ dirs'[pr[p].stageDir] = dirs[pr[p].stageDir] \/ pr[p].pc = "tmpdir"
         /\ (pr[p].cacheId # NoCache /\ cache' # cache) =>
              /\ pr[p].pc = "zip"
              /\ zips'[cache'[pr[p].cacheId][pr[p].startPath]].st = "file"]_vars

\* A run with a stub has stored its archive in the cache.
C22_Witness ==
    \E p \in Procs :
      /\ pr[p].pc = "copy"
      /\ needsStub(pr[p].startPath)
      /\ pr[p].cacheId # NoCache
      /\ cache[pr[p].cacheId][pr[p].startPath] = pr[p].zipPath
      /\ zips[pr[p].zipPath].st = "file"

\* The call is past the normalization and the archive is not built yet.
normalized(rec) == rec.pc \in {"tmpfile", "rmzip", "zip"}

\* Two trees have the same paths, and at each path the same kind and the
\* same contents.
sameFiles(t1, t2) ==
    /\ DOMAIN t1 = DOMAIN t2
    /\ \A q \in DOMAIN t1 : t1[q].kind = t2[q].kind /\ t1[q].content = t2[q].content

\* When the normalization has finished, every file and directory of the
\* staging tree, the staging root and the stub included, has modification
\* time 0 until the archive is built.
timesAreEpoch ==
    \A p \in Procs :
      normalized(pr[p]) =>
        LET tree == dirs[pr[p].stageDir].tree IN
        /\ dirs[pr[p].stageDir].st = "present"
        /\ Root \in DOMAIN tree
        /\ \A q \in DOMAIN tree : tree[q].mtime = 0
        /\ \A f \in DOMAIN pr[p].collected : f \in DOMAIN tree /\ tree[f].kind = "file"
        /\ \A f \in DOMAIN pr[p].collected : \A d \in ancestors(f) : d \in DOMAIN tree
        /\ needsStub(pr[p].startPath) => stubName(pr[p].startPath) \in DOMAIN tree

\* C23: when the normalization step has finished, every file and every
\* directory in the staging tree, including the staging root and the stub,
\* has modification time 0 at the moment the archive is built, and
\* normalization changed neither any file's contents nor the set of paths in
\* the tree.
C23_NormalizationOnlySetsTimes ==
    /\ []timesAreEpoch
    /\ [][\A p \in Procs :
            /\ (pr[p].pc = "walk" /\ pr'[p].pc = "tmpfile") =>
                 sameFiles(dirs[pr[p].stageDir].tree, dirs'[pr[p].stageDir].tree)
            /\ (normalized(pr[p]) /\ normalized(pr'[p])) =>
                 dirs'[pr[p].stageDir] = dirs[pr[p].stageDir]
            /\ (pr[p].pc = "zip" /\ pr'[p].pc = "copy") =>
                 zips'[pr[p].zipPath].bytes = zipBytes(dirs[pr[p].stageDir].tree)]_vars

\* zip runs on a normalized tree that holds a directory, a staged file in it
\* and the stub, each written at a time other than 0.
C23_Witness ==
    \E p \in Procs :
      /\ pr[p].pc = "zip"
      /\ needsStub(pr[p].startPath)
      /\ LET tree == dirs[pr[p].stageDir].tree IN
         /\ Cardinality(DOMAIN tree) >= 4
         /\ \E q \in DOMAIN tree : tree[q].kind = "dir" /\ q # Root
         /\ tree[stubName(pr[p].startPath)].content = stubContent(pr[p].startPath)

\* The archive a cache value names: the build that stored it.
builtAt(c, e) ==
    {b \in builds : b.cacheId = c /\ b.startPath = e /\ b.zipPath = cache[c][e]}

\* C24: the cache is written only by a fully successful build: if the
\* Dependency Collector, the stub write, the normalization or zip fails, the
\* cache after the call equals the cache before it; hence every value in
\* the cache is the path of an archive that a completed zip step produced.
C24_CacheOnlyOnSuccess ==
    /\ \A p \in Procs :
         (pr[p].pc = "done" /\ pr[p].thrown \in PipelineSteps) =>
           /\ pr[p].result = "rejected"
           /\ cache = pr[p].cache0
    /\ \A p \in Procs : building(pr[p]) => cache = pr[p].cache0
    /\ \A c \in CacheIds : \A e \in AllPaths :
         cache[c][e] # 0 =>
           /\ builtAt(c, e) # {}
           /\ \A b \in builtAt(c, e) : zips[cache[c][e]] = [st |-> "file", bytes |-> b.bytes]

\* A second call, for another entry path, failed in zip after the first
\* call had stored its archive.
C24_Witness ==
    \E p \in Procs :
      /\ pr[p].pc = "done" /\ pr[p].thrown = "zip"
      /\ pr[p].cacheId # NoCache
      /\ \E e \in AllPaths : e # pr[p].startPath /\ cache[pr[p].cacheId][e] # 0
      /\ cache[pr[p].cacheId][pr[p].startPath] = 0
      /\ pr[p].zipPath # 0

\* C25: once an entry path is mapped in a cache, that mapping is never
\* removed and never changed for the rest of the session: after any sequence
\* or interleaving of packaging calls sharing the cache, each key still maps
\* to the archive path stored by the first successful build of that key.
C25_MappingIsStable ==
    [][\A c \in CacheIds : \A e \in AllPaths :
         cache[c][e] # 0 => cache'[c][e] = cache[c][e]]_vars

\* C26: stub synthesis writes exactly one new file into the staging tree
\* and modifies no file the Dependency Collector staged: for every entry
\* path and every collector output, each staged file has the same contents
\* after the stub step as before it, including when a staged top-level file
\* has the same name as the stub.
C26_StubLeavesStagedFiles ==
    [][\A p \in Procs :
         (pr[p].pc = "stub" /\ pr'[p].pc = "walk") =>
           LET before == filesOf(dirs[pr[p].stageDir].tree)
               after == filesOf(dirs'[pr[p].stageDir].tree)
           IN
           /\ Cardinality(DOMAIN after \ DOMAIN before) = 1
           /\ \A f \in DOMAIN before : f \in DOMAIN after /\ after[f] = before[f]]_vars

\* The entry file lies directly in the base (current) directory.
inBaseDir(startPath) == pathDirname(pathResolve(Cwd, startPath)) = Cwd

\* C27: when the entry file lies directly in the base directory, however its
\* path is spelled (foo.js, ./foo.js, or the absolute path of that file), no
\* stub is created and the staged tree is exactly the Dependency Collector's
\* output.
C27_NoStubAtTopLevel ==
    \A p \in Procs :
      (pr[p].pc # "idle" /\ inBaseDir(pr[p].startPath)) =>
        /\ pr[p].pc # "stub"
        /\ pr[p].pc \in {"walk", "tmpfile", "rmzip", "zip"} =>
             filesOf(dirs[pr[p].stageDir].tree) = pr[p].collected

\* The same for the two relative spellings, foo.js and ./foo.js.
noStubForRelativeSpellings ==
    \A p \in Procs :
      (pr[p].pc # "idle" /\ pr[p].startPath \in {fooJs, dotFooJs}) =>
        /\ pr[p].pc # "stub"
        /\ pr[p].pc \in {"walk", "tmpfile", "rmzip", "zip"} =>
             filesOf(dirs[pr[p].stageDir].tree) = pr[p].collected

\* The bucket holds an object with exactly this key.
holdsKey(b, key) == \E o \in s3[b].objects : o.key = key

\* The bucket holds an object whose key starts with this key and is longer.
holdsLongerKey(b, key) == \E o \in s3[b].objects : o.key # key /\ startsWith(o.key, key)

\* C28: packageZipS3 skips the upload if and only if an object with exactly
\* the computed key exists in the bucket: an object whose key merely starts
\* with the computed key never causes a skip, and an existing object with
\* the exact key always causes a skip even when other keys share that
\* prefix (the listing returns keys in ascending order).
C28_SkipIffExactKey ==
    [][\A p \in Procs :
         (pr[p].pc = "list" /\ pr'[p].pc # "list" /\ pr'[p].err # "list") =>
           /\ pr'[p].pc \in {"done", "upload"}
           /\ pr'[p].pc = "done" <=> holdsKey(pr[p].bucket, pr[p].loc.key)
           /\ pr'[p].pc = "done" => pr'[p].result = "resolved" /\ pr'[p].upload = "no"
           /\ pr'[p].exists <=> holdsKey(pr[p].bucket, pr[p].loc.key)
           /\ s3' = s3]_vars

\* In a bucket that held a longer key and not the key itself, a first call
\* uploaded the archive and a second call skipped the upload, the longer
\* key still there.
C28_Witness ==
    \E p \in Procs :
      /\ pr[p].pc = "done" /\ pr[p].sink = "s3"
      /\ pr[p].exists /\ pr[p].upload = "no" /\ pr[p].result = "resolved"
      /\ holdsLongerKey(pr[p].bucket, pr[p].loc.key)
      /\ Len(s3log) = 1
      /\ s3log[1].upload = "ok" /\ ~s3log[1].exists
      /\ s3log[1].loc = pr[p].loc

\* C29: the output sink runs after the build: packageZipS3 performs no
\* state-changing remote-storage operation (bucket creation or upload)
\* before the archive has been built successfully, so a Dependency Collector
\* or zip failure leaves remote storage exactly as it was before the call.
C29_SinkAfterBuild ==
    [][s3' # s3 =>
         \E p \in Procs :
           /\ pr[p].sink = "s3"
           /\ pr[p].tmpPath # 0
           /\ zips[pr[p].tmpPath].st = "file"]_vars

\* The call resolved.
resolvedS3(p) == pr[p].sink = "s3" /\ pr[p].pc = "done" /\ pr[p].result = "resolved"

\* The objects of a bucket after call p ran on its own in a bucket that held
\* objs: a call that resolved has listed the bucket and uploaded its archive
\* unless the key was there; a call that rejected has stored nothing.
afterCall(objs, p) ==
    IF resolvedS3(p) /\ ~objectExists(listObjectsV2(objs, 1, pr[p].loc.key), pr[p].loc.key)
    THEN putObject(objs, pr[p].loc.key, pr[p].zipData)
    ELSE objs

\* The objects of a bucket after the calls ran one after the other, p first.
sequentially(b, p, q) ==
    LET own(c) == IF pr[c].bucket = b THEN {c} ELSE {}
        first == IF own(p) = {} THEN {} ELSE afterCall({}, p)
    IN IF own(q) = {} THEN first ELSE afterCall(first, q)

\* C30: every object this program writes to remote storage is stored under a
\* key whose hash part is the MD5 of the object's own bytes; for any
\* interleaving of concurrent packageZipS3 calls (two that both pass the
\* existence check for the same key before either uploads included) the
\* final bucket contents equal those of some sequential execution, and each
\* call returns the key of its own archive.
C30_ConcurrentUploadsBenign ==
    /\ \A b \in BucketNames : \A o \in s3[b].objects :
         o.key = keyPrefix(opts.s3Prefix) \o md5Hex(o.body) \o <<".zip">>
    /\ \A p \in Callers :
         resolvedS3(p) =>
           /\ pr[p].zipData = zips[pr[p].tmpPath].bytes
           /\ pr[p].loc = [bucket |-> pr[p].bucket,
                           key |-> keyPrefix(pr[p].prefix) \o md5Hex(pr[p].zipData) \o <<".zip">>]
           /\ [key |-> pr[p].loc.key, body |-> pr[p].zipData] \in s3[pr[p].bucket].objects
    /\ (\A p \in Callers : pr[p].pc = "done") =>
         \A b \in BucketNames :
           \E p, q \in Callers : p # q /\ s3[b].objects = sequentially(b, p, q)

\* Both calls found no object at the same key, and both uploaded the archive.
C30_Witness ==
    \E p, q \in Callers :
      /\ p # q
      /\ resolvedS3(p) /\ resolvedS3(q)
      /\ pr[p].loc = pr[q].loc
      /\ ~pr[p].exists /\ ~pr[q].exists
      /\ pr[p].upload = "ok" /\ pr[q].upload = "ok"
      /\ Cardinality(s3[pr[p].bucket].objects) = 1

\* Every resource of the template that names an existing file has its
\* property replaced.
allProcessed ==
    \A j \in 1..Len(cfn.input.Resources) :
      LET res == cfn.input.Resources[j] IN
      (recognized(res) /\ ~skipped(res)) => j \in processed

\* C31: cloudformationPackageOutput writes the transformed template only
\* after every resource has been processed successfully: if template parsing
\* or any resource's packaging or upload fails, nothing is written to
\* outputPath or to stdout; on success the JSON is written to stdout and no
\* file is created when outputPath is "-", and to the file outputPath
\* otherwise.
C31_OutputOnlyOnSuccess ==
    /\ (cli.stdout # <<>> \/ cli.file # <<>>) =>
         /\ cli.stage \in {"", "cfn"} /\ "cfn" \in cli.flags
         /\ cfn.pc = "done" /\ cfn.result = "resolved"
         /\ allProcessed
         /\ \A p \in Procs : pr[p].pc \in {"idle", "done"}
    /\ (cfn.pc # "done" \/ cfn.result = "rejected") => cli.stdout = <<>> /\ cli.file = <<>>
    /\ cli.written =>
         IF cli.outputPath = dash
         THEN cli.stdout = <<stringify(cfn.template)>> /\ cli.file = <<>>
         ELSE cli.file = <<stringify(cfn.template)>> /\ cli.stdout = <<>>
    /\ (cli.pc \in {"resolved", "exited"} /\ "cfn" \in cli.flags /\ cli.nargs = 1
          /\ cli.reported = "") => cli.written

\* A template with a replaced property was written to stdout.
C31_Witness ==
    /\ cli.written
    /\ cli.outputPath = dash
    /\ Len(cfn.locs) >= 1
    /\ cli.stdout # <<>>

\* The text of the template was parsed, or the parse failed.
parseAttempted == cfn.parsers # <<>>

\* C32: for a template path whose extension is .json and whose text is not
\* valid JSON, cloudformationPackage fails with an "Unable to parse JSON
\* template" error and does not attempt to parse the text as YAML; for any
\* other extension, text that is not valid JSON is parsed as YAML, and the
\* call fails with "Unable to parse YAML template" only if that fails too.
C32_ParseByExtension ==
    parseAttempted =>
      IF cfn.syntax = "json" THEN cfn.err # "parse" /\ cfn.parsers = <<"json">>
      ELSE IF pathParse(cfn.templatePath).ext = <<".json">>
      THEN /\ cfn.result = "rejected" /\ cfn.err = "parse"
           /\ cfn.msg = <<"Unable to parse JSON template">>
           /\ cfn.parsers = <<"json">>
      ELSE /\ cfn.parsers = <<"json", "yaml">>
           /\ IF cfn.syntax = "yaml" THEN cfn.err # "parse"
              ELSE /\ cfn.result = "rejected" /\ cfn.err = "parse"
                   /\ cfn.msg = <<"Unable to parse YAML template">>

\* The staging directories that were created: one for each run of the
\* Dependency Collector (main.ts:101-109).
stagingDirs == {d \in TmpIds : dirs[d].st # "none"}

\* The invocation packages the start file (it was not given --cfn).
packagesStartFile == cli.pc # "idle" /\ cli.nargs = 1 /\ cli.flags # {} /\ "cfn" \notin cli.flags

\* C33: one command line invocation uses one cache for its whole run:
\* whatever sink operations it performs for the start file (in the order
\* local zip, S3 upload, function update), the Dependency Collector is
\* invoked at most once for that start file and every sink consumes the same
\* archive.
C33_OneBuildPerInvocation ==
    packagesStartFile =>
      /\ Cardinality(stagingDirs) <= 1
      /\ Cardinality(builds) <= 1
      /\ \A p \in Procs :
           pr[p].pc # "idle" =>
             /\ pr[p].startPath = startFile
             /\ pr[p].cacheId = opts.cache /\ pr[p].cacheId # NoCache
             /\ pr[p].tmpPath # 0 => \E b \in builds : b.zipPath = pr[p].tmpPath
             /\ pr[p].hasData => \E b \in builds : b.bytes = pr[p].zipData
      /\ outFile \in {NoFile, partialFile} \/ \E b \in builds : outFile = [st |-> "file", bytes |-> b.bytes]
      /\ \A bk \in BucketNames : \A o \in s3[bk].objects : \E b \in builds : o.body = b.bytes
      /\ fn.updates > 0 => \E b \in builds : fn.code = [st |-> "file", bytes |-> b.bytes]

\* An invocation with --zip, --s3 and --lambda has written the file,
\* uploaded the object and updated the function.
C33_Witness ==
    /\ cli.flags = {"zip", "s3", "lambda"}
    /\ cli.pc = "resolved"
    /\ outFile.st = "file"
    /\ \E bk \in BucketNames : s3[bk].objects # {}
    /\ fn.updates = 1
    /\ Cardinality(stagingDirs) = 1

\* The call of p has run _makeTmpZipFile past the cache lookup.
missedCache(p) == pr[p].pc # "idle" /\ ~pr[p].hadKey

\* C34: packaging does not modify the caller's options: after any number of
\* cache-miss builds made with the same options object,
\* options.browserifyArgs is unchanged, and every build's Dependency
\* Collector invocation receives the same argument list: the caller's
\* browserifyArgs followed, when tsconfig is set, by exactly one tsify
\* plugin group.
C34_OptionsUntouched ==
    \A p \in Procs :
      missedCache(p) =>
        /\ collectOpts[pr[p].optId] = pr[p].opts0
        /\ pr[p].nCollect > 0 => pr[p].collectArgs = argsOf(pr[p].opts0)
        /\ \A b \in builds :
             b.optId = pr[p].optId /\ pr[p].nCollect > 0 => b.collectArgs = pr[p].collectArgs

\* C35: the process-wide NODE_PATH setting is the same after a packaging
\* call as before it, on every exit path (cache hit, success, collector
\* failure, zip failure) and for every initial state, including the state
\* where NODE_PATH was not set at all: it is then still unset afterwards.
C35_NodePathRestored ==
    \A p \in Procs : pr[p].pc = "done" => env = pr[p].env0

\* options.nodePath of the call of p.
nodePathOf(p) == collectOpts[pr[p].optId].nodePath

\* C36: when two packaging calls with different options.nodePath values run
\* concurrently, each Dependency Collector invocation runs with NODE_PATH
\* equal to its own call's nodePath for its whole duration, and after both
\* calls have completed NODE_PATH equals the value it had before either
\* started.
C36_NodePathPerCall ==
    /\ \A p \in Callers :
         pr[p].pc = "collect" /\ nodePathOf(p).def => env = nodePathOf(p)
    /\ \A p \in Callers :
         running = {} /\ pr[p].pc = "done" /\ pr[p].joined => env = pr[p].rest0

\* The archives the request of a call gets when it is built on its own: the
\* entry path with the options and the NODE_PATH the call was made with.
builtAlone(rec) ==
    {archiveOf(rec.startPath, files) :
       files \in collectJsDeps(rec.startPath, argsOf(rec.opts0),
                               IF rec.opts0.nodePath.def THEN rec.opts0.nodePath ELSE rec.env0)}

\* C37: supplying a cache never changes results, only the amount of work:
\* for every sequence of packaging requests (entry path plus options such as
\* browserifyArgs, tsconfig and nodePath), the archive each request gets
\* with a shared cache is the archive the same request would get with no
\* cache.
C37_CacheKeepsResults ==
    \A p \in Procs :
      pr[p].pc \in {"copy", "done"} /\ pr[p].tmpPath # 0 =>
        zips[pr[p].tmpPath].bytes \in builtAlone(pr[p])

\* The calls that hold a staging directory.
staging(d) == {p \in DOMAIN pr : pr[p].pc # "idle" /\ pr[p].stageDir = d}

\* C38: every cache-miss pipeline run creates its own fresh staging
\* directory: no two runs, whether sequential or in flight at the same time,
\* ever use the same staging directory, a cache hit creates none, and a
\* staging directory is written only by the run that created it.
C38_OwnStagingDirectory ==
    /\ [](\A p \in Callers :
            /\ pr[p].pc # "idle" /\ pr[p].hadKey => pr[p].stageDir = 0 /\ pr[p].nStage = 0
            /\ pr[p].nCollect > 0 => pr[p].stageDir # 0 /\ pr[p].nStage = 1
            /\ \A q \in Callers \ {p} :
                 pr[p].pc # "idle" /\ pr[q].pc # "idle" /\ pr[p].stageDir # 0
                   => pr[q].stageDir # pr[p].stageDir)
    /\ [][\A d \in TmpIds :
            /\ (\E p \in Callers : pr'[p].stageDir = d /\ pr[p].stageDir # d)
                 => /\ dirs[d].st = "none"
                    /\ dirs'[d].st = "present" /\ filesOf(dirs'[d].tree) = <<>>
                    /\ Cardinality(staging(d)') = 1
            /\ dirs'[d] # dirs[d]
                 => \/ \E p \in Callers : pr'[p].stageDir = d /\ pr'[p] # pr[p]
                    \/ dirs[d].st = "removing" /\ dirs'[d].st = "removed"]_vars

\* Two runs are in flight at the same time, each with its staging
\* directory, after their collectors have staged files.
C38_Witness ==
    \E p, q \in Callers :
      /\ p # q
      /\ pr[p].pc = "walk" /\ pr[q].pc = "walk"
      /\ pr[p].stageDir # 0 /\ pr[q].stageDir # 0 /\ pr[p].stageDir # pr[q].stageDir

\* The run of cloudformationPackage has got past the lines that settle its
\* cache (main.ts:287-289).
pastCache == cfn.pc \in {"exists", "call"} \/ (cfn.pc = "done" /\ cfn.i > 0)

\* The builds that stored their archive in cache c for the entry path e.
buildsIn(c, e) == {b \in builds : b.cacheId = c /\ b.startPath = e}

\* C39: when the caller supplies no cache, each cloudformationPackage run
\* creates one new empty cache that is shared by all resources of that run
\* and by no other run: the caller's options object is left without a cache,
\* and a second run over the same template invokes the Dependency Collector
\* again for each distinct file.  When the caller supplies a cache, that
\* cache is the one used.
C39_CachePerRun ==
    /\ [](/\ pastCache =>
               cfn.cacheId = (IF opts.cache = NoCache THEN newMap(calls) ELSE opts.cache)
          /\ \A p \in Procs :
               cfn.pc = "call" /\ cfn.caller = p /\ pr[p].pc # "idle"
                 => pr[p].cacheId = cfn.cacheId
          /\ \A n \in 1..MaxCalls :
               n > calls \/ (n = calls /\ ~pastCache)
                 => /\ cache[newMap(n)] = emptyCache
                    /\ \A e \in AllPaths : reqs[newMap(n)][e] = 0
          /\ cfn.pc = "done" /\ cfn.result = "resolved"
               => \A k \in DOMAIN cfn.locs :
                    Cardinality(buildsIn(cfn.cacheId, cfn.locs[k].path)) = 1)
    /\ [][/\ opts' = opts
          /\ \A c \in RunCaches :
               c # newMap(calls') => cache'[c] = cache[c] /\ reqs'[c] = reqs[c]]_vars

\* Without a cache from the caller, a second run over the template has
\* resolved and each of the two runs has built the file in its own cache.
C39_Witness ==
    /\ opts.cache = NoCache
    /\ calls = 2
    /\ cfn.pc = "done" /\ cfn.result = "resolved"
    /\ cfn.locs # <<>>
    /\ \A n \in 1..2 : Cardinality(buildsIn(newMap(n), cfn.locs[1].path)) = 1

\* C40: run to completion or fail: provided every external operation
\* (collector, file system call, zip, remote call) eventually returns
\* success or failure, every pipeline invocation eventually reaches DONE
\* (returning an archive path) or FAILED (raising an error) and never stays
\* in an intermediate state, fsWalk terminates on every finite directory
\* tree, and cloudformationPackage terminates for every template with
\* finitely many resources.
C40_RunsToCompletion ==
    /\ \A p \in Procs :
         (pr[p].pc \notin {"idle", "done"})
           ~> (/\ pr[p].pc = "done"
               /\ \/ pr[p].result = "resolved" /\ pr[p].tmpPath # 0
                  \/ pr[p].result = "rejected" /\ pr[p].err # "")
    /\ (walk.pc \notin {"idle", "done", "failed"}) ~> (walk.pc \in {"done", "failed"})
    /\ (cfn.pc \notin {"idle", "done"})
         ~> (cfn.pc = "done" /\ cfn.result \in {"resolved", "rejected"})

\* A transform over a template with two files has resolved after two
\* builds.
C40_Witness ==
    /\ cfn.pc = "done" /\ cfn.result = "resolved"
    /\ Len(cfn.locs) = 2
    /\ Cardinality(builds) = 2

====
